---- MODULE Spec2Model ----
(***************************************************************************)
(* A state-machine model of the OpenBotX runtime:                          *)
(*   - the orchestration pipeline (core/orchestrator.py) over the channel  *)
(*     context store (core/context_store.py),                              *)
(*   - the gateway supervisor (core/gateway_manager.py),                   *)
(*   - the application entry point (__main__.py).                          *)
(* Every action is one atomic block of a coroutine: the code between two   *)
(* suspension points of the asyncio event loop.                            *)
(***************************************************************************)
EXTENDS Integers, Sequences, FiniteSets, Bags, TLC

(***************************************************************************)
(* Bounds of the model.                                                    *)
(***************************************************************************)
MaxMsgs == 3
MaxQueue == 2
SummaryThreshold == 2
MaxOps == 2
MaxStartAlls == 1
MaxRestarts == 2
AppMsgs == 1
MaxContent == 2
MaxTurns == 2
MaxStoreOps == 3
MaxMessages == 5
MaxContentTokens == 2
MaxBudget == 4
MaxConns == 2
MaxEvents == 3
MaxClients == 2
MaxCommands == 2
MaxHttp == 1
CdpConns == 1
CdpEvents == 2
EventCommands == 1
MaxIndexOps == 5
MaxReindexOps == 6
MaxSkillFiles == 3
chunk_size == 2
chunk_overlap == 1

Msgs == 1..MaxMsgs
Channels == {"cli-session", "ws-1"}

VARIABLES
    \* ---- orchestrator, message bus, context store ----
    queue,        \* message bus FIFO of message ids
    submitted,    \* messages accepted by the bus, in submission order
    mpc,          \* position of each message in the pipeline
    mchan,        \* channel id of each message
    mvalid,       \* the validator accepted the message
    msecure,      \* the security filter accepted the message
    mresp,        \* kind of response built for the message
    loaded,       \* history the message's load_context returned
    sent,         \* number of times a response for the message was handed to send
    history,      \* ContextStore._cache[channel].history
    disk,         \* history file of the channel
    summ,         \* background summarization task scheduled by each message
    summary,      \* message whose summarization wrote the channel's summary (0: none)
    orch_running, \* Orchestrator._running
    ptask,        \* Orchestrator._process_task
    respAtSumm    \* sent[m] when m's summarization task began to run

VARIABLES
    \* ---- gateway supervisor ----
    registered,   \* names in GatewayManager._gateways
    auto_restart, \* GatewayManager._auto_restart
    info,         \* GatewayInfo of each gateway: status, task, error, restart_count
    pstat,        \* provider status of each gateway
    tpc,          \* position of each run task (_run_gateway_wrapper) of each gateway
    tcancel,      \* run tasks with a cancellation requested and not yet delivered
    cpc,          \* position of each supervisor call on each gateway
    cwait,        \* run task a stop_gateway call awaits
    cres,         \* value a finished call hands to its caller
    rinfo,        \* what the last restart_gateway call found and did (history)
    autoinc,      \* number of automatic restarts of each gateway (history)
    sa_results,   \* outcome per gateway the last start_all returned
    gm_running,   \* GatewayManager._running
    gm_shutdown,  \* GatewayManager._shutdown_event
    ops           \* number of supervisor calls still to be made by its callers

VARIABLES
    \* ---- application entry point ----
    mode,           \* gateway_type of run_application
    app_pc,         \* position of run_application
    shutdown_event, \* the shutdown_event of run_application
    memory_index    \* the memory index: "none", "open" or "closed"

VARIABLES
    \* ---- history file round trip ----
    h_turns,      \* the turn list handed to the formatter
    h_pc,         \* "turns", "file", "parsed", "refile" ("unused" elsewhere)
    h_file,       \* the text the formatter wrote
    h_parsed,     \* the turn list the parser read from h_file
    h_refile      \* the text the formatter wrote from h_parsed

VARIABLES
    \* ---- context store ----
    files,        \* the memory directory: path -> file
    files_before, \* the memory directory when the last call was made
    cache,        \* ContextStore._cache: channel id -> context
    called,       \* the last call made on the store
    store_ops     \* number of store calls still to be made

VARIABLES
    \* ---- context compactor ----
    c_strategy,   \* CompactionConfig.strategy
    c_messages,   \* the messages handed to compact
    c_budget,     \* token_budget
    c_summary,    \* existing_summary (empty: None)
    c_result,     \* the CompactionResult
    c_pc          \* "call", "done" ("unused" elsewhere)

VARIABLES
    \* ---- browser relay ----
    ext_pc,            \* position of each _ws_extension request handler
    extension_ws,      \* _extension_ws: the registered upstream (0: None)
    connected_targets, \* _connected_targets: session id -> target id
    broadcast_log,     \* the events broadcast to the downstream clients
    ext_event,         \* the event the receive loop handled last
    relay_events,      \* number of upstream events still to come
    cdp_pc,            \* position of each _ws_cdp request handler
    cdp_clients,       \* _cdp_clients
    cdp_closed,        \* the downstream sockets with ws.closed
    send_tasks,        \* the _safe_send tasks created and not yet run
    delivered,         \* what was written to each downstream socket
    pending,           \* _pending_extension: request id -> owner of the future
    next_extension_id, \* _next_extension_id
    cdp_wait,          \* the command a _ws_cdp handler awaits the reply of
    cdp_fut,           \* the future a _ws_cdp handler awaits
    http_pc,           \* position of each HTTP request handler
    http_wait,         \* the request id an HTTP handler awaits the reply of
    http_fut,          \* the future an HTTP handler awaits
    forwarded,         \* every command sent upstream: owner, command id, request id
    closing,           \* list(_cdp_clients) of the cleanup of each upstream
    cdp_last,          \* the command the downstream side handled last
    cdp_cmds,          \* number of downstream commands still to come
    peer               \* request.remote of the last request

VARIABLES
    \* ---- memory index ----
    ix_disk,       \* the memory files on disk: path -> text (0: no file)
    ix_db,         \* the database as the connection sees it
    ix_committed,  \* the database as of the last commit
    use_vec,       \* _use_vec: the vector table is in use
    ix_pc,         \* "idle", or "embedding" while embed_batch is awaited
    ix_call,       \* the indexing call that awaits embed_batch
    ix_ops         \* number of file writes and indexing calls still to come

VARIABLES
    \* ---- tool policy ----
    policy_call,    \* the arguments of ToolPolicy.evaluate and the configuration
    policy_result,  \* the ToolPolicyResult
    policy_pc       \* "call", "done" ("unused" elsewhere)

VARIABLES
    \* ---- skills registry ----
    sk_order,       \* the skill files in the order in which they are loaded
    sk_pending,     \* the files not loaded yet
    sk_skills,      \* _skills: skill id -> skill
    sk_ineligible   \* the keys of _ineligible_skills

\* Directive parser (helpers/directives.py): the raw text of a message and
\* the results of the parses made so far, the first of the raw text and every
\* later one of the cleaned text of the parse before it.
VARIABLES dir_text, dir_results

\* Message content in process_message (core/orchestrator.py, models/message.py)
VARIABLES
    msg_text,        \* InboundMessage.text
    msg_directives,  \* InboundMessage.directives (empty: None)
    msg_pc,          \* "received", "agent", "rejected", "saved", "error"
    validated,       \* the texts handed to SecurityManager.validate_message
    persisted        \* the contents handed to add_turn as the user turn

\* Background summarization (core/context_store.py, core/orchestrator.py)
VARIABLES
    summ_pending,    \* summarize-<channel> tasks created and not yet started
    summ_calling,    \* trigger_summarization calls awaiting the summarizer
    summ_returned    \* the last trigger_summarization call that returned

orchCtl == <<orch_running, ptask>>
orchVars == <<queue, submitted, mpc, mchan, mvalid, msecure, mresp, loaded, sent, history, disk,
              summ, summary, orchCtl, respAtSumm>>
gwConf == <<registered, auto_restart>>
gwMgr == <<gm_running, gm_shutdown, sa_results>>
gwVars == <<gwConf, gwMgr, info, pstat, tpc, tcancel, cpc, cwait, cres, rinfo, autoinc,
            ops>>
appVars == <<mode, app_pc, shutdown_event, memory_index>>
histVars == <<h_turns, h_pc, h_file, h_parsed, h_refile>>
storeVars == <<files, files_before, cache, called, store_ops>>
compVars == <<c_strategy, c_messages, c_budget, c_summary, c_result, c_pc>>
relayVars == <<ext_pc, extension_ws, connected_targets, broadcast_log, ext_event,
               relay_events, cdp_pc, cdp_clients, cdp_closed, send_tasks, delivered,
               pending, next_extension_id, cdp_wait, cdp_fut, http_pc, http_wait,
               http_fut, forwarded, closing, cdp_last, cdp_cmds, peer>>
indexVars == <<ix_disk, ix_db, ix_committed, use_vec, ix_pc, ix_call, ix_ops>>
policyVars == <<policy_call, policy_result, policy_pc>>
skillVars == <<sk_order, sk_pending, sk_skills, sk_ineligible>>
dirVars == <<dir_text, dir_results>>
contentVars == <<msg_text, msg_directives, msg_pc, validated, persisted>>
summVars == <<summ_pending, summ_calling, summ_returned>>
libVars == <<histVars, storeVars, compVars, relayVars, indexVars, policyVars, skillVars, dirVars, contentVars, summVars>>

\* Everything but the variables of one component.
exceptHist == <<orchVars, gwVars, appVars, storeVars, compVars, relayVars, indexVars, policyVars, skillVars, dirVars, contentVars, summVars>>
exceptStore == <<orchVars, gwVars, appVars, histVars, compVars, relayVars, indexVars, policyVars, skillVars, dirVars, contentVars, summVars>>
exceptComp == <<orchVars, gwVars, appVars, histVars, storeVars, relayVars, indexVars, policyVars, skillVars, dirVars, contentVars, summVars>>
exceptRelay == <<orchVars, gwVars, appVars, histVars, storeVars, compVars, indexVars, policyVars, skillVars, dirVars, contentVars, summVars>>
exceptIndex == <<orchVars, gwVars, appVars, histVars, storeVars, compVars, relayVars, policyVars, skillVars, dirVars, contentVars, summVars>>
exceptPolicy == <<orchVars, gwVars, appVars, histVars, storeVars, compVars, relayVars, indexVars, skillVars, dirVars, contentVars, summVars>>
exceptSkills == <<orchVars, gwVars, appVars, histVars, storeVars, compVars, relayVars, indexVars, policyVars, dirVars, contentVars, summVars>>
exceptDirectives == <<orchVars, gwVars, appVars, histVars, storeVars, compVars, relayVars, indexVars, policyVars, skillVars, contentVars, summVars>>
exceptContent == <<orchVars, gwVars, appVars, histVars, storeVars, compVars, relayVars, indexVars, policyVars, skillVars, dirVars, summVars>>
exceptSumm == <<orchVars, gwVars, appVars, histVars, storeVars, compVars, relayVars, indexVars, policyVars, skillVars, dirVars, contentVars>>
vars == <<orchVars, gwVars, appVars, libVars>>

(***************************************************************************)
(* Orchestration pipeline                                                  *)
(***************************************************************************)
InHandler == {"agent", "sending"}
Terminal == {"done", "error"}

Turn(role, m) == <<role, m>>

\* A store that puts the new turn in front.
add_turn_prepend(h, role, m) == <<Turn(role, m)>> \o h

\* ContextStore.add_turn: context.history.append(turn)
add_turn(h, role, m) == Append(h, Turn(role, m))

\* ContextStore.needs_summarization: total_tokens > summary_threshold_tokens.
\* Every turn counts one token.
needs_summarization(h) == Len(h) > SummaryThreshold

\* The bus's process_one returns once the handler it awaits has returned.
ProcessOneReturned == \A m \in Msgs : mpc[m] \notin InHandler

\* A loop that dequeues without awaiting the handler of the previous message.
ProcessLoopNoAwait == orch_running

\* Orchestrator._process_loop: while self._running: await process_one()
ProcessLoopReady == orch_running /\ ProcessOneReturned

\* A task whose cancellation was requested resumes with CancelledError, never
\* with the result of what it awaited.
Resumes == ptask # "cancelling"

\* The orchestrator after initialize(), with n inbound messages to come and
\* h0 the history every channel's context file holds from earlier runs.
InitOrch(n, h0) ==
    /\ queue = <<>>
    /\ submitted = <<>>
    /\ mpc = [m \in Msgs |-> IF m <= n THEN "new" ELSE "unused"]
    /\ mchan = [m \in Msgs |-> "cli-session"]
    /\ mvalid = [m \in Msgs |-> FALSE]
    /\ msecure = [m \in Msgs |-> FALSE]
    /\ mresp = [m \in Msgs |-> "none"]
    /\ loaded = [m \in Msgs |-> <<>>]
    /\ sent = [m \in Msgs |-> 0]
    /\ history = [c \in Channels |-> h0]
    /\ disk = [c \in Channels |-> h0]
    /\ summ = [m \in Msgs |-> "none"]
    /\ summary = [c \in Channels |-> 0]
    /\ respAtSumm = [m \in Msgs |-> 0]

\* Orchestrator.enqueue_message -> MessageBus.enqueue (bounded FIFO; a full
\* queue rejects the message with an error).
enqueue_message(m, c) ==
    /\ mpc[m] = "new"
    /\ \A k \in Msgs : k < m => mpc[k] # "new"
    /\ mchan' = [mchan EXCEPT ![m] = c]
    /\ IF Len(queue) < MaxQueue
         THEN /\ queue' = Append(queue, m)
              /\ submitted' = Append(submitted, m)
              /\ mpc' = [mpc EXCEPT ![m] = "queued"]
         ELSE /\ mpc' = [mpc EXCEPT ![m] = "bus_rejected"]
              /\ UNCHANGED <<queue, submitted>>
    /\ UNCHANGED <<mvalid, msecure, mresp, loaded, sent, history, disk, summ, summary,
                   orchCtl, respAtSumm>>
    /\ UNCHANGED <<gwVars, appVars, libVars>>

\* A pipeline that goes on after a security violation.
AcceptedUnfiltered(valid, secure) == valid

\* process_message goes past steps 1 and 4 only for a message that the
\* validator and the security filter both accept.
Accepted(valid, secure) == valid /\ secure

\* process_one dequeues the head and awaits _handle_message, which runs
\* process_message up to its first suspension: validation (step 1), security
\* check (step 4), load_context (step 5), then the agent call (step 12).  A
\* rejected message gets its rejection response handed to a gateway's send.
process_message_begin(m, valid, secure) ==
    /\ ProcessLoopReady
    /\ queue # <<>>
    /\ m = Head(queue)
    /\ queue' = Tail(queue)
    /\ mvalid' = [mvalid EXCEPT ![m] = valid]
    /\ msecure' = [msecure EXCEPT ![m] = valid /\ secure]
    /\ IF Accepted(valid, secure)
         THEN /\ loaded' = [loaded EXCEPT ![m] = history[mchan[m]]]
              /\ mpc' = [mpc EXCEPT ![m] = "agent"]
              /\ UNCHANGED <<mresp, sent>>
         ELSE /\ mresp' = [mresp EXCEPT ![m] = "rejection"]
              /\ sent' = [sent EXCEPT ![m] = @ + 1]
              /\ mpc' = [mpc EXCEPT ![m] = "sending"]
              /\ UNCHANGED loaded
    /\ UNCHANGED <<submitted, mchan, history, disk, summ, summary, orchCtl,
                   respAtSumm>>
    /\ UNCHANGED <<gwVars, appVars, libVars>>

\* AgentBrain.process raises: process_message propagates it and
\* _handle_message logs it in its except clause; nothing is sent.
agent_raises(m) ==
    /\ mpc[m] = "agent"
    /\ Resumes
    /\ mpc' = [mpc EXCEPT ![m] = "error"]
    /\ UNCHANGED <<queue, submitted, mchan, mvalid, msecure, mresp, loaded, sent, history,
                   disk, summ, summary, orchCtl, respAtSumm>>
    /\ UNCHANGED <<gwVars, appVars, libVars>>

\* The agent returns; steps 14-15 and the hand-over to send run without a
\* suspension: add_turn(user), add_turn(assistant), the summarization check,
\* the outbound message, gateway.send.  add_turn appends to the cached
\* context before save_context writes the file; a failing write raises.
\* w = 0: both writes succeed; 1: the user write raises; 2: the assistant
\* write raises.
agent_returns(m, w) ==
    /\ mpc[m] = "agent"
    /\ Resumes
    /\ LET c == mchan[m]
           h1 == add_turn(history[c], "user", m)
           h2 == add_turn(h1, "assistant", m)
       IN  CASE w = 0 ->
                 /\ history' = [history EXCEPT ![c] = h2]
                 /\ disk' = [disk EXCEPT ![c] = h2]
                 /\ summ' = [summ EXCEPT ![m] =
                        IF needs_summarization(h2) THEN "scheduled" ELSE @]
                 /\ mresp' = [mresp EXCEPT ![m] = "answer"]
                 /\ sent' = [sent EXCEPT ![m] = @ + 1]
                 /\ mpc' = [mpc EXCEPT ![m] = "sending"]
             [] w = 1 ->
                 /\ history' = [history EXCEPT ![c] = h1]
                 /\ mpc' = [mpc EXCEPT ![m] = "error"]
                 /\ UNCHANGED <<disk, summ, mresp, sent>>
             [] OTHER ->
                 /\ history' = [history EXCEPT ![c] = h2]
                 /\ disk' = [disk EXCEPT ![c] = h1]
                 /\ mpc' = [mpc EXCEPT ![m] = "error"]
                 /\ UNCHANGED <<summ, mresp, sent>>
    /\ UNCHANGED <<queue, submitted, mchan, mvalid, msecure, loaded, summary, orchCtl,
                   respAtSumm>>
    /\ UNCHANGED <<gwVars, appVars, libVars>>

\* gateway.send returns or raises (_send_response logs a raise); the handler
\* returns either way.
send_returns(m) ==
    /\ mpc[m] = "sending"
    /\ Resumes
    /\ mpc' = [mpc EXCEPT ![m] = "done"]
    /\ UNCHANGED <<queue, submitted, mchan, mvalid, msecure, mresp, loaded, sent, history,
                   disk, summ, summary, orchCtl, respAtSumm>>
    /\ UNCHANGED <<gwVars, appVars, libVars>>

\* CLIGateway.send prints and returns without a suspension; WebSocketGateway.send
\* awaits the socket write, and the event loop runs other tasks meanwhile.
SendSuspends(c) == c = "ws-1"

\* Orchestrator._trigger_summarization -> ContextStore.trigger_summarization
\* up to the summarizer call.  The task was created at step 15, before
\* process_message returned, and starts at the next suspension of the loop.
summarization_begin(m) ==
    /\ summ[m] = "scheduled"
    /\ mpc[m] = "sending" => SendSuspends(mchan[m])
    /\ respAtSumm' = [respAtSumm EXCEPT ![m] = sent[m]]
    /\ summ' = [summ EXCEPT ![m] =
           IF needs_summarization(history[mchan[m]]) THEN "calling" ELSE "done"]
    /\ UNCHANGED <<queue, submitted, mpc, mchan, mvalid, msecure, mresp, loaded, sent,
                   history, disk, summary, orchCtl>>
    /\ UNCHANGED <<gwVars, appVars, libVars>>

\* The summarizer returns and save_summary writes the summary, or the call
\* raises and trigger_summarization returns False.
summarization_end(m, ok) ==
    /\ summ[m] = "calling"
    /\ summ' = [summ EXCEPT ![m] = IF ok THEN "done" ELSE "failed"]
    /\ summary' = [summary EXCEPT ![mchan[m]] = IF ok THEN m ELSE @]
    /\ UNCHANGED <<queue, submitted, mpc, mchan, mvalid, msecure, mresp, loaded, sent,
                   history, disk, orchCtl, respAtSumm>>
    /\ UNCHANGED <<gwVars, appVars, libVars>>

NextOrch ==
    \/ \E m \in Msgs, c \in Channels : enqueue_message(m, c)
    \/ \E m \in Msgs, valid, secure \in BOOLEAN : process_message_begin(m, valid, secure)
    \/ \E m \in Msgs : agent_raises(m)
    \/ \E m \in Msgs, w \in 0..2 : agent_returns(m, w)
    \/ \E m \in Msgs : send_returns(m)
    \/ \E m \in Msgs : summarization_begin(m)
    \/ \E m \in Msgs, ok \in BOOLEAN : summarization_end(m, ok)

(***************************************************************************)
(* Gateway supervisor                                                      *)
(***************************************************************************)
Names == {"cli", "websocket"}
\* Every call and every automatic restart creates at most one run task.
TaskIds == 1..(MaxOps + MaxRestarts)
Slots == {"start", "stop", "restart", "start_all", "stop_all"}
\* Calls whose return value is kept until the caller or the gather takes it.
Reported == {"stop", "start_all", "stop_all"}

\* A run task that has not finished.
Live == {"run", "sleep", "start"}

NewInfo == [status |-> "registered", task |-> 0, error |-> FALSE, restart_count |-> 0]

NoRestart == [running |-> FALSE, old |-> 0, stopped |-> FALSE, base |-> 0]

InitGateways(reg, auto, n) ==
    /\ registered = reg
    /\ auto_restart = auto
    /\ info = [g \in Names |-> NewInfo]
    /\ pstat = [g \in Names |-> "initialized"]
    /\ tpc = [g \in Names |-> [i \in TaskIds |-> "none"]]
    /\ tcancel = [g \in Names |-> {}]
    /\ cpc = [g \in Names |-> [s \in Slots |-> "idle"]]
    /\ cwait = [g \in Names |-> [s \in Slots |-> 0]]
    /\ cres = [g \in Names |-> [s \in Slots |-> "none"]]
    /\ rinfo = [g \in Names |-> NoRestart]
    /\ autoinc = [g \in Names |-> 0]
    /\ sa_results = [g \in Names |-> "none"]
    /\ gm_running = FALSE
    /\ gm_shutdown = FALSE
    /\ ops = n

Bool(b) == IF b THEN "true" ELSE "false"

\* Run tasks created so far for the gateway.
UsedTasks(g) == Cardinality({i \in TaskIds : tpc[g][i] # "none"})

\* start_gateway up to its first suspension: returns True at once for a
\* running gateway, else sets STARTING and awaits initialize() (only for a
\* provider in status INITIALIZED) or start().
start_gateway_pc(inf, ps) ==
    IF inf.status = "running" THEN "return"
    ELSE IF ps = "initialized" THEN "init" ELSE "start"

start_gateway_info(inf) ==
    IF inf.status = "running" THEN inf ELSE [inf EXCEPT !.status = "starting"]

\* The provider's start() sets STARTING as soon as it is called.
start_gateway_pstat(inf, ps) ==
    IF start_gateway_pc(inf, ps) = "start" THEN "starting" ELSE ps

\* start_gateway after start() returned: the run task is created and
\* recorded, the gateway is RUNNING.
start_gateway_success(inf, t) ==
    [inf EXCEPT !.task = t, !.status = "running", !.error = FALSE]

\* start_gateway's except clause.
start_gateway_failure(inf) == [inf EXCEPT !.status = "error", !.error = TRUE]

\* stop_gateway acts only on a RUNNING or ERROR gateway; any other status
\* returns True at once.
StopProceeds(st) == st \in {"running", "error"}

\* stop_gateway's except clause.
stop_gateway_failure(inf) == [inf EXCEPT !.status = "error", !.error = TRUE]

\* stop_gateway after the task wait: STOPPED, task handle cleared.
stop_gateway_finish(inf) == [inf EXCEPT !.status = "stopped", !.task = 0]

\* A wrapper that compares with <= and so restarts once too often.
MayAutoRestartOffByOne(rc) == auto_restart /\ rc <= MaxRestarts

\* _run_gateway_wrapper: if self._auto_restart and info.restart_count < self._max_restarts
MayAutoRestart(rc) == auto_restart /\ rc < MaxRestarts

\* _run_gateway_wrapper's except clause: ERROR, the error recorded, and the
\* restart counted when there is one to come.
run_failure(inf, again) ==
    [inf EXCEPT !.status = "error", !.error = TRUE,
                !.restart_count = IF again THEN @ + 1 ELSE @]

\* A gather that returns as soon as one child has finished.
GatherFirstDone(s) == \E g \in registered : cpc[g][s] = "done"

\* asyncio.gather(*tasks, return_exceptions=True) of start_all / stop_all
\* returns when every child has finished.
GatherDone(s) == \A g \in registered : cpc[g][s] = "done"

\* Call s on gateway g returns r: a reported value waits for its taker.
Finish(g, s, r) ==
    /\ cpc' = [cpc EXCEPT ![g][s] = IF s \in Reported THEN "done" ELSE "idle"]
    /\ cres' = [cres EXCEPT ![g][s] = IF s \in Reported THEN Bool(r) ELSE "none"]

\* Call s on gateway g suspends at pc.
Continue(g, s, pc) ==
    /\ cpc' = [cpc EXCEPT ![g][s] = pc]
    /\ UNCHANGED cres

\* start_gateway, entered in call s with the gateway's record inf and its
\* provider in status ps, up to its first suspension.
StartEnter(g, s, inf, ps) ==
    /\ info' = [info EXCEPT ![g] = start_gateway_info(inf)]
    /\ pstat' = [pstat EXCEPT ![g] = start_gateway_pstat(inf, ps)]
    /\ IF start_gateway_pc(inf, ps) = "return"
         THEN Finish(g, s, TRUE)
         ELSE Continue(g, s, start_gateway_pc(inf, ps))

\* What follows a stop_gateway that returned r in call s: restart_gateway
\* goes on with start_gateway, any other call returns r.
AfterStop(g, s, inf, r, ps) ==
    IF s = "restart"
      THEN StartEnter(g, s, inf, ps)
      ELSE /\ info' = [info EXCEPT ![g] = inf]
           /\ pstat' = [pstat EXCEPT ![g] = ps]
           /\ Finish(g, s, r)

\* stop_gateway, entered in call s with the gateway's record inf, up to its
\* first suspension (the provider's stop(), which sets STOPPING as soon as
\* it is called).
StopEnter(g, s, inf) ==
    IF StopProceeds(inf.status)
      THEN /\ info' = [info EXCEPT ![g] = [inf EXCEPT !.status = "stopping"]]
           /\ pstat' = [pstat EXCEPT ![g] = "stopping"]
           /\ Continue(g, s, "stopping")
      ELSE AfterStop(g, s, inf, TRUE, pstat[g])

\* A caller invokes start_gateway(g).
start_gateway_call(g) ==
    /\ g \in registered
    /\ ops > 0
    /\ cpc[g]["start"] = "idle"
    /\ ops' = ops - 1
    /\ StartEnter(g, "start", info[g], pstat[g])
    /\ UNCHANGED <<tpc, tcancel, cwait, rinfo, autoinc>>
    /\ UNCHANGED <<gwConf, gwMgr, orchVars, appVars, libVars>>

\* _start_gateway_with_result, a child of start_all's gather, is scheduled.
start_gateway_begin(g) ==
    /\ cpc[g]["start_all"] = "spawned"
    /\ StartEnter(g, "start_all", info[g], pstat[g])
    /\ UNCHANGED <<tpc, tcancel, cwait, rinfo, autoinc, ops>>
    /\ UNCHANGED <<gwConf, gwMgr, orchVars, appVars, libVars>>

\* The provider's initialize() returns, start() is awaited next; or it
\* raises and start_gateway's except clause returns False.
start_gateway_initialized(g, s, ok) ==
    /\ cpc[g][s] = "init"
    /\ IF ok
         THEN /\ Continue(g, s, "start")
              /\ pstat' = [pstat EXCEPT ![g] = "starting"]
              /\ UNCHANGED info
         ELSE /\ info' = [info EXCEPT ![g] = start_gateway_failure(@)]
              /\ Finish(g, s, FALSE)
              /\ UNCHANGED pstat
    /\ UNCHANGED <<tpc, tcancel, cwait, rinfo, autoinc, ops>>
    /\ UNCHANGED <<gwConf, gwMgr, orchVars, appVars, libVars>>

\* The provider's start() returns: the run task is created; or it raises.
start_gateway_started(g, s, ok) ==
    /\ cpc[g][s] = "start"
    /\ IF ok
         THEN LET t == UsedTasks(g) + 1
              IN  /\ tpc' = [tpc EXCEPT ![g][t] = "run"]
                  /\ info' = [info EXCEPT ![g] = start_gateway_success(@, t)]
                  /\ pstat' = [pstat EXCEPT ![g] = "running"]
                  /\ Finish(g, s, TRUE)
         ELSE /\ info' = [info EXCEPT ![g] = start_gateway_failure(@)]
              /\ pstat' = [pstat EXCEPT ![g] = "error"]
              /\ Finish(g, s, FALSE)
              /\ UNCHANGED tpc
    /\ UNCHANGED <<tcancel, cwait, rinfo, autoinc, ops>>
    /\ UNCHANGED <<gwConf, gwMgr, orchVars, appVars, libVars>>

\* A caller invokes stop_gateway(g).
stop_gateway_call(g) ==
    /\ g \in registered
    /\ ops > 0
    /\ cpc[g]["stop"] = "idle"
    /\ ops' = ops - 1
    /\ StopEnter(g, "stop", info[g])
    /\ UNCHANGED <<tpc, tcancel, cwait, rinfo, autoinc>>
    /\ UNCHANGED <<gwConf, gwMgr, orchVars, appVars, libVars>>

\* _stop_gateway_with_result, a child of stop_all's gather, is scheduled.
stop_gateway_begin(g) ==
    /\ cpc[g]["stop_all"] = "spawned"
    /\ StopEnter(g, "stop_all", info[g])
    /\ UNCHANGED <<tpc, tcancel, cwait, rinfo, autoinc, ops>>
    /\ UNCHANGED <<gwConf, gwMgr, orchVars, appVars, libVars>>

\* The caller of stop_gateway takes the returned value.
stop_gateway_return(g) ==
    /\ cpc[g]["stop"] = "done"
    /\ cpc' = [cpc EXCEPT ![g]["stop"] = "idle"]
    /\ cres' = [cres EXCEPT ![g]["stop"] = "none"]
    /\ UNCHANGED <<info, pstat, tpc, tcancel, cwait, rinfo, autoinc, ops>>
    /\ UNCHANGED <<gwConf, gwMgr, orchVars, appVars, libVars>>

\* A caller invokes restart_gateway(g): status RESTARTING, then
\* stop_gateway, then start_gateway, up to the first suspension.
restart_gateway_call(g) ==
    /\ g \in registered
    /\ ops > 0
    /\ cpc[g]["restart"] = "idle"
    /\ ops' = ops - 1
    /\ rinfo' = [rinfo EXCEPT ![g] =
           [running |-> info[g].status = "running", old |-> info[g].task,
            stopped |-> FALSE, base |-> info[g].restart_count - autoinc[g]]]
    /\ StopEnter(g, "restart", [info[g] EXCEPT !.status = "restarting"])
    /\ UNCHANGED <<tpc, tcancel, cwait, autoinc>>
    /\ UNCHANGED <<gwConf, gwMgr, orchVars, appVars, libVars>>

\* The provider's stop() returns: a run task that is not done is cancelled
\* and awaited, otherwise the gateway is STOPPED; or stop() raises and
\* stop_gateway's except clause returns False.
stop_gateway_stopped(g, s, ok) ==
    /\ cpc[g][s] = "stopping"
    /\ rinfo' = [rinfo EXCEPT ![g].stopped = IF s = "restart" THEN TRUE ELSE @]
    /\ IF ok
         THEN IF info[g].task # 0 /\ tpc[g][info[g].task] \in Live
                THEN /\ tcancel' = [tcancel EXCEPT ![g] = @ \cup {info[g].task}]
                     /\ cwait' = [cwait EXCEPT ![g][s] = info[g].task]
                     /\ pstat' = [pstat EXCEPT ![g] = "stopped"]
                     /\ Continue(g, s, "waittask")
                     /\ UNCHANGED info
                ELSE /\ AfterStop(g, s, stop_gateway_finish(info[g]), TRUE, "stopped")
                     /\ UNCHANGED <<tcancel, cwait>>
         ELSE /\ AfterStop(g, s, stop_gateway_failure(info[g]), FALSE, pstat[g])
              /\ UNCHANGED <<tcancel, cwait>>
    /\ UNCHANGED <<tpc, autoinc, ops>>
    /\ UNCHANGED <<gwConf, gwMgr, orchVars, appVars, libVars>>

\* asyncio.wait_for(info.task) ends once the cancelled task is done (also
\* after a timeout: wait_for cancels the task and waits for it): STOPPED.
stop_gateway_task_done(g, s) ==
    /\ cpc[g][s] = "waittask"
    /\ tpc[g][cwait[g][s]] \notin Live
    /\ cwait' = [cwait EXCEPT ![g][s] = 0]
    /\ AfterStop(g, s, stop_gateway_finish(info[g]), TRUE, pstat[g])
    /\ UNCHANGED <<tpc, tcancel, rinfo, autoinc, ops>>
    /\ UNCHANGED <<gwConf, gwMgr, orchVars, appVars, libVars>>

\* gateway._run() raises inside _run_gateway_wrapper: ERROR, and with
\* auto_restart and restarts left the wrapper counts the restart and sleeps
\* before it calls start_gateway.
run_raises(g, i) ==
    /\ tpc[g][i] = "run"
    /\ i \notin tcancel[g]
    /\ LET again == MayAutoRestart(info[g].restart_count)
       IN  /\ info' = [info EXCEPT ![g] = run_failure(@, again)]
           /\ autoinc' = [autoinc EXCEPT ![g] = IF again THEN @ + 1 ELSE @]
           /\ tpc' = [tpc EXCEPT ![g][i] = IF again THEN "sleep" ELSE "failed"]
    /\ UNCHANGED <<pstat, tcancel, cpc, cwait, cres, rinfo, ops>>
    /\ UNCHANGED <<gwConf, gwMgr, orchVars, appVars, libVars>>

\* gateway._run() returns (its stop event was set, the user quit): the
\* wrapper ends and leaves the GatewayInfo as it is.
run_returns(g, i) ==
    /\ tpc[g][i] = "run"
    /\ i \notin tcancel[g]
    /\ tpc' = [tpc EXCEPT ![g][i] = "done"]
    /\ UNCHANGED <<info, pstat, tcancel, cpc, cwait, cres, rinfo, autoinc, ops>>
    /\ UNCHANGED <<gwConf, gwMgr, orchVars, appVars, libVars>>

\* The CancelledError of task.cancel() reaches the run task at its
\* suspension point: caught and logged around _run(), propagated out of
\* the restart delay and of start_gateway; the task ends either way.
task_cancelled(g, i) ==
    /\ i \in tcancel[g]
    /\ tpc[g][i] \in Live
    /\ tpc' = [tpc EXCEPT ![g][i] = "done"]
    /\ tcancel' = [tcancel EXCEPT ![g] = @ \ {i}]
    /\ UNCHANGED <<info, pstat, cpc, cwait, cres, rinfo, autoinc, ops>>
    /\ UNCHANGED <<gwConf, gwMgr, orchVars, appVars, libVars>>

\* The restart delay is over: the wrapper calls start_gateway, which runs
\* up to its first suspension.  The provider has been started before, so
\* its status is not INITIALIZED and initialize() is not awaited.
restart_delay_done(g, i) ==
    /\ tpc[g][i] = "sleep"
    /\ i \notin tcancel[g]
    /\ info' = [info EXCEPT ![g] = start_gateway_info(@)]
    /\ pstat' = [pstat EXCEPT ![g] = start_gateway_pstat(info[g], @)]
    /\ LET pc == start_gateway_pc(info[g], pstat[g])
       IN  tpc' = [tpc EXCEPT ![g][i] = IF pc = "return" THEN "done" ELSE pc]
    /\ UNCHANGED <<tcancel, cpc, cwait, cres, rinfo, autoinc, ops>>
    /\ UNCHANGED <<gwConf, gwMgr, orchVars, appVars, libVars>>

\* start_gateway called by the wrapper: start() returns and the next run
\* task is created, or start() raises; the wrapper ends.
restart_started(g, i, ok) ==
    /\ tpc[g][i] = "start"
    /\ i \notin tcancel[g]
    /\ IF ok
         THEN LET t == UsedTasks(g) + 1
              IN  /\ tpc' = [tpc EXCEPT ![g][i] = "done", ![g][t] = "run"]
                  /\ info' = [info EXCEPT ![g] = start_gateway_success(@, t)]
                  /\ pstat' = [pstat EXCEPT ![g] = "running"]
         ELSE /\ info' = [info EXCEPT ![g] = start_gateway_failure(@)]
              /\ pstat' = [pstat EXCEPT ![g] = "error"]
              /\ tpc' = [tpc EXCEPT ![g][i] = "done"]
    /\ UNCHANGED <<tcancel, cpc, cwait, cres, rinfo, autoinc, ops>>
    /\ UNCHANGED <<gwConf, gwMgr, orchVars, appVars, libVars>>

\* The children of a gather, one per registered gateway, in call s.
Children(s, pc) ==
    [g \in Names |-> IF g \in registered THEN [cpc[g] EXCEPT ![s] = pc] ELSE cpc[g]]

\* The gather took the children's values.
Taken(s) == [g \in Names |-> [cres[g] EXCEPT ![s] = "none"]]

\* start_all: _running is set, the shutdown event cleared, and one
\* _start_gateway_with_result per registered gateway is gathered.
start_all_spawn ==
    /\ \A g \in registered : cpc[g]["start_all"] = "idle"
    /\ gm_running' = TRUE
    /\ gm_shutdown' = FALSE
    /\ sa_results' = [g \in Names |-> "none"]
    /\ cpc' = Children("start_all", "spawned")
    /\ UNCHANGED cres

\* The gather of start_all is complete: one outcome per gateway.
start_all_collect ==
    /\ GatherDone("start_all")
    /\ sa_results' = [g \in Names |-> cres[g]["start_all"]]
    /\ cpc' = Children("start_all", "idle")
    /\ cres' = Taken("start_all")
    /\ UNCHANGED <<gm_running, gm_shutdown>>

\* stop_all: _running is cleared, the shutdown event set, and one
\* _stop_gateway_with_result per registered gateway is gathered.
stop_all_spawn ==
    /\ \A g \in registered : cpc[g]["stop_all"] = "idle"
    /\ gm_running' = FALSE
    /\ gm_shutdown' = TRUE
    /\ cpc' = Children("stop_all", "spawned")
    /\ UNCHANGED <<sa_results, cres>>

\* The gather of stop_all is complete.
stop_all_collect ==
    /\ GatherDone("stop_all")
    /\ cpc' = Children("stop_all", "idle")
    /\ cres' = Taken("stop_all")
    /\ UNCHANGED gwMgr

\* No start_all or stop_all is in progress.
FleetIdle == \A g \in registered : cpc[g]["start_all"] = "idle" /\ cpc[g]["stop_all"] = "idle"

\* start_all and stop_all called by their caller, which awaits the one
\* before it calls the other.
start_all_call ==
    /\ ops > 0
    /\ FleetIdle
    /\ ops' = ops - 1
    /\ start_all_spawn
    /\ UNCHANGED <<info, pstat, tpc, tcancel, cwait, rinfo, autoinc>>
    /\ UNCHANGED <<gwConf, orchVars, appVars, libVars>>

start_all_return ==
    /\ start_all_collect
    /\ UNCHANGED <<info, pstat, tpc, tcancel, cwait, rinfo, autoinc, ops>>
    /\ UNCHANGED <<gwConf, orchVars, appVars, libVars>>

stop_all_call ==
    /\ ops > 0
    /\ FleetIdle
    /\ ops' = ops - 1
    /\ stop_all_spawn
    /\ UNCHANGED <<info, pstat, tpc, tcancel, cwait, rinfo, autoinc>>
    /\ UNCHANGED <<gwConf, orchVars, appVars, libVars>>

stop_all_return ==
    /\ stop_all_collect
    /\ UNCHANGED <<info, pstat, tpc, tcancel, cwait, rinfo, autoinc, ops>>
    /\ UNCHANGED <<gwConf, orchVars, appVars, libVars>>

\* The supervisor driven through start_all only.
NextFleet ==
    \/ start_all_call
    \/ start_all_return
    \/ \E g \in Names : start_gateway_begin(g)
    \/ \E g \in Names, s \in Slots, ok \in BOOLEAN : start_gateway_initialized(g, s, ok)
    \/ \E g \in Names, s \in Slots, ok \in BOOLEAN : start_gateway_started(g, s, ok)
    \/ \E g \in Names, i \in TaskIds : run_raises(g, i)
    \/ \E g \in Names, i \in TaskIds : run_returns(g, i)
    \/ \E g \in Names, i \in TaskIds : restart_delay_done(g, i)
    \/ \E g \in Names, i \in TaskIds, ok \in BOOLEAN : restart_started(g, i, ok)

\* The supervisor driven through every entry point.
NextGateway ==
    \/ \E g \in Names : start_gateway_call(g)
    \/ \E g \in Names : stop_gateway_call(g)
    \/ \E g \in Names : stop_gateway_return(g)
    \/ \E g \in Names : restart_gateway_call(g)
    \/ start_all_call
    \/ start_all_return
    \/ stop_all_call
    \/ stop_all_return
    \/ \E g \in Names : start_gateway_begin(g)
    \/ \E g \in Names, s \in Slots, ok \in BOOLEAN : start_gateway_initialized(g, s, ok)
    \/ \E g \in Names, s \in Slots, ok \in BOOLEAN : start_gateway_started(g, s, ok)
    \/ \E g \in Names : stop_gateway_begin(g)
    \/ \E g \in Names, s \in Slots, ok \in BOOLEAN : stop_gateway_stopped(g, s, ok)
    \/ \E g \in Names, s \in Slots : stop_gateway_task_done(g, s)
    \/ \E g \in Names, i \in TaskIds : run_raises(g, i)
    \/ \E g \in Names, i \in TaskIds : run_returns(g, i)
    \/ \E g \in Names, i \in TaskIds : task_cancelled(g, i)
    \/ \E g \in Names, i \in TaskIds : restart_delay_done(g, i)
    \/ \E g \in Names, i \in TaskIds, ok \in BOOLEAN : restart_started(g, i, ok)

(***************************************************************************)
(* Channel context store: history files and summary records                *)
(***************************************************************************)

\* A text is a sequence of characters.  "## User", "## Assistant", " - " and
\* "# Conversation History" stand for the character runs that the parser and
\* the formatter treat as units; a timestamp is one character.
LF == "<LF>"
Whitespace == {" ", LF}
Stamps == {"t1", "t2"}
Now == "now"
ContentChars == {"x", " ", LF, "## User"}

RECURSIVE SplitOn(_, _)
\* str.split(sep): the pieces between the occurrences of sep.
SplitOn(text, sep) ==
    IF \A i \in DOMAIN text : text[i] # sep
      THEN <<text>>
      ELSE LET i == CHOOSE k \in DOMAIN text :
                        text[k] = sep /\ \A j \in 1..(k - 1) : text[j] # sep
           IN  <<SubSeq(text, 1, i - 1)>>
                   \o SplitOn(SubSeq(text, i + 1, Len(text)), sep)

RECURSIVE Join(_, _)
\* sep.join(parts)
Join(parts, sep) ==
    IF parts = <<>> THEN <<>>
    ELSE IF Len(parts) = 1 THEN parts[1]
    ELSE parts[1] \o <<sep>> \o Join(Tail(parts), sep)

RECURSIVE lstrip(_)
lstrip(s) == IF s # <<>> /\ Head(s) \in Whitespace THEN lstrip(Tail(s)) ELSE s

RECURSIVE rstrip(_)
rstrip(s) ==
    IF s # <<>> /\ s[Len(s)] \in Whitespace
      THEN rstrip(SubSeq(s, 1, Len(s) - 1))
      ELSE s

\* str.strip()
strip(s) == rstrip(lstrip(s))

ConversationTurn(role, content, timestamp) ==
    [role |-> role, content |-> content, timestamp |-> timestamp]

role_name(role) == IF role = "user" THEN "## User" ELSE "## Assistant"

RECURSIVE TurnLines(_)
\* The three list entries _format_history appends for each turn.
TurnLines(h) ==
    IF h = <<>> THEN <<>>
    ELSE << <<role_name(h[1].role), " - ", h[1].timestamp, LF>>,
            h[1].content,
            <<LF>> >> \o TurnLines(Tail(h))

\* ContextStore._format_history
format_history(h) ==
    Join(<< <<"# Conversation History", LF>> >> \o TurnLines(h), LF)

startswith(line, prefix) == line # <<>> /\ Head(line) = prefix

\* The timestamp a role header sets: line.split(" - ")[1] through
\* datetime.fromisoformat, the time of the call when that raises, the
\* previous header's timestamp when the line has no " - ".
header_timestamp(line, prev) ==
    IF \A i \in DOMAIN line : line[i] # " - "
      THEN prev
      ELSE LET ts_str == SplitOn(line, " - ")[2]
           IN  IF Len(ts_str) = 1 /\ ts_str[1] \in Stamps THEN ts_str[1] ELSE Now

\* "if current_role and current_content: history.append(...)"
flush_turn(role, cur, ts, hist) ==
    IF role # "none" /\ cur # <<>>
      THEN Append(hist, ConversationTurn(role, strip(Join(cur, LF)),
                                         IF ts = "none" THEN Now ELSE ts))
      ELSE hist

RECURSIVE parse_lines(_, _, _, _, _)
\* The loop of _parse_history over the lines, and its last entry.
parse_lines(lines, role, cur, ts, hist) ==
    IF lines = <<>> THEN flush_turn(role, cur, ts, hist)
    ELSE LET line == Head(lines)
             rest == Tail(lines)
         IN  IF startswith(line, "## User")
               THEN parse_lines(rest, "user", <<>>, header_timestamp(line, ts),
                                flush_turn(role, cur, ts, hist))
             ELSE IF startswith(line, "## Assistant")
               THEN parse_lines(rest, "assistant", <<>>, header_timestamp(line, ts),
                                flush_turn(role, cur, ts, hist))
             ELSE IF role # "none"
               THEN parse_lines(rest, role, Append(cur, line), ts, hist)
             ELSE parse_lines(rest, role, cur, ts, hist)

\* ContextStore._parse_history
parse_history(content) == parse_lines(SplitOn(content, LF), "none", <<>>, "none", <<>>)

RECURSIVE SeqsUpTo(_, _)
\* The sequences over S of length at most n.
SeqsUpTo(S, n) ==
    IF n = 0 THEN {<<>>}
    ELSE LET shorter == SeqsUpTo(S, n - 1)
         IN  shorter \cup {Append(q, x) : q \in shorter, x \in S}

Contents == SeqsUpTo(ContentChars, MaxContent)
Turns == {ConversationTurn(r, c, t) : r \in {"user", "assistant"}, c \in Contents, t \in Stamps}
TurnLists == SeqsUpTo(Turns, MaxTurns)

\* A history written to its file, read back and written again.
InitHistory ==
    /\ h_turns \in TurnLists
    /\ h_pc = "turns"
    /\ h_file = <<>>
    /\ h_parsed = <<>>
    /\ h_refile = <<>>

NoHistory ==
    /\ h_turns = <<>>
    /\ h_pc = "unused"
    /\ h_file = <<>>
    /\ h_parsed = <<>>
    /\ h_refile = <<>>

\* save_context: content = self._format_history(context.history)
history_formatted ==
    /\ h_pc = "turns"
    /\ h_file' = format_history(h_turns)
    /\ h_pc' = "file"
    /\ UNCHANGED <<h_turns, h_parsed, h_refile>>
    /\ UNCHANGED exceptHist

\* load_context: context.history = self._parse_history(content)
history_parsed ==
    /\ h_pc = "file"
    /\ h_parsed' = parse_history(h_file)
    /\ h_pc' = "parsed"
    /\ UNCHANGED <<h_turns, h_file, h_refile>>
    /\ UNCHANGED exceptHist

\* The next save_context of the loaded context.
history_reformatted ==
    /\ h_pc = "parsed"
    /\ h_refile' = format_history(h_parsed)
    /\ h_pc' = "refile"
    /\ UNCHANGED <<h_turns, h_file, h_parsed>>
    /\ UNCHANGED exceptHist

NextHistory ==
    \/ history_formatted
    \/ history_parsed
    \/ history_reformatted

\* Channel ids and the files of the memory directory.  ":" is a character
\* outside [A-Za-z0-9_-]; "ch", "1", "summary" and ".md" stand for runs of
\* letters and digits.
ChannelIds ==
    { <<"ch", ":", "1">>, <<"ch", "_", "1">>, <<"ch", "_", "1", "_", "summary">> }
SafeChars == {"ch", "1", "summary", "_", "-"}

\* "".join(c if c.isalnum() or c in "-_" else "_" for c in channel_id)
safe_id(channel_id) ==
    [i \in DOMAIN channel_id |->
        IF channel_id[i] \in SafeChars THEN channel_id[i] ELSE "_"]

\* ContextStore._get_channel_path
get_channel_path(channel_id) == safe_id(channel_id) \o <<".md">>

\* ContextStore._get_summary_path
get_summary_path(channel_id) == safe_id(channel_id) \o <<"_", "summary", ".md">>

Paths ==
    {get_channel_path(c) : c \in ChannelIds} \cup {get_summary_path(c) : c \in ChannelIds}

Summaries == {"none", "s1"}
NoFile == [exists |-> FALSE, text |-> <<>>]
File(text) == [exists |-> TRUE, text |-> text]

\* json.dumps of the summary record (indentation and updated_at left out).
json_dumps(user_summary, conversation_summary) ==
    <<"{", LF, user_summary, LF, conversation_summary, LF, "}">>

\* json.loads(content) gives a dict, or raises JSONDecodeError.
is_json(content) == Len(content) = 7 /\ content[1] = "{"

\* The token estimate of a text: one token per character of the model.
count_tokens(text) == Len(text)

ChannelContext(h, us, cs) ==
    [present |-> TRUE, history |-> h, user_summary |-> us, conversation_summary |-> cs,
     total_tokens |-> 0]
NoContext ==
    [present |-> FALSE, history |-> <<>>, user_summary |-> "none",
     conversation_summary |-> "none", total_tokens |-> 0]

\* load_context past its cache check: the history file parsed and the
\* summary record read, each only when it exists and can be read.
read_context(fs, channel_id) ==
    LET hp == fs[get_channel_path(channel_id)]
        sp == fs[get_summary_path(channel_id)]
        ok == sp.exists /\ is_json(sp.text)
    IN  [ChannelContext(IF hp.exists THEN parse_history(hp.text) ELSE <<>>,
                        IF ok THEN sp.text[3] ELSE "none",
                        IF ok THEN sp.text[5] ELSE "none")
            EXCEPT !.total_tokens = IF hp.exists THEN count_tokens(hp.text) ELSE 0]

\* ContextStore.load_context
load_context(channel_id) ==
    IF cache[channel_id].present THEN cache[channel_id]
    ELSE read_context(files, channel_id)

StoreContents == { <<"x">>, <<"x", LF>> }

InitStore ==
    /\ files = [p \in Paths |-> NoFile]
    /\ files_before = [p \in Paths |-> NoFile]
    /\ cache = [c \in ChannelIds |-> NoContext]
    /\ called = [op |-> "none", channel_id |-> <<>>]
    /\ store_ops = MaxStoreOps

NoStore ==
    /\ files = [p \in Paths |-> NoFile]
    /\ files_before = [p \in Paths |-> NoFile]
    /\ cache = [c \in ChannelIds |-> NoContext]
    /\ called = [op |-> "none", channel_id |-> <<>>]
    /\ store_ops = 0

\* A caller loads a channel that is not cached.
store_load_context(c) ==
    /\ store_ops > 0
    /\ ~cache[c].present
    /\ cache' = [cache EXCEPT ![c] = load_context(c)]
    /\ called' = [op |-> "load_context", channel_id |-> c]
    /\ store_ops' = store_ops - 1
    /\ files_before' = files
    /\ UNCHANGED files
    /\ UNCHANGED exceptStore

\* ContextStore.add_turn with save_context writing the file.
store_add_turn(c, role, content) ==
    /\ store_ops > 0
    /\ LET context == load_context(c)
           h == Append(context.history, ConversationTurn(role, content, "t1"))
       IN  /\ files' = [files EXCEPT ![get_channel_path(c)] = File(format_history(h))]
           /\ cache' = [cache EXCEPT ![c] =
                          [context EXCEPT !.history = h,
                                          !.total_tokens = count_tokens(format_history(h))]]
    /\ called' = [op |-> "add_turn", channel_id |-> c]
    /\ store_ops' = store_ops - 1
    /\ files_before' = files
    /\ UNCHANGED exceptStore

\* save_summary with a cache entry that also loses its turns.
save_summary_cache_trimming(ch, c, us, cs) ==
    IF ch[c].present
      THEN [ch EXCEPT ![c] = ChannelContext(<<>>, us, cs)]
      ELSE ch

\* The write of save_summary to the channel's summary file.
save_summary_file(fs, c, us, cs) ==
    [fs EXCEPT ![get_summary_path(c)] = File(json_dumps(us, cs))]

\* The update of save_summary to the channel's cache entry, when there is one.
save_summary_cache(ch, c, us, cs) ==
    IF ch[c].present
      THEN [ch EXCEPT ![c].user_summary = us, ![c].conversation_summary = cs]
      ELSE ch

\* ContextStore.save_summary
store_save_summary(c, us, cs) ==
    /\ store_ops > 0
    /\ files' = save_summary_file(files, c, us, cs)
    /\ cache' = save_summary_cache(cache, c, us, cs)
    /\ called' = [op |-> "save_summary", channel_id |-> c]
    /\ store_ops' = store_ops - 1
    /\ files_before' = files
    /\ UNCHANGED exceptStore

\* ContextStore.clear_context
store_clear_context(c) ==
    /\ store_ops > 0
    /\ files' = [files EXCEPT ![get_channel_path(c)] = NoFile,
                              ![get_summary_path(c)] = NoFile]
    /\ cache' = [cache EXCEPT ![c] = NoContext]
    /\ called' = [op |-> "clear_context", channel_id |-> c]
    /\ store_ops' = store_ops - 1
    /\ files_before' = files
    /\ UNCHANGED exceptStore

NextStore ==
    \/ \E c \in ChannelIds : store_load_context(c)
    \/ \E c \in ChannelIds, role \in {"user", "assistant"}, content \in StoreContents :
           store_add_turn(c, role, content)
    \/ \E c \in ChannelIds, us, cs \in Summaries : store_save_summary(c, us, cs)
    \/ \E c \in ChannelIds : store_clear_context(c)

(***************************************************************************)
(* Background summarization (core/context_store.py, core/orchestrator.py,  *)
(* agent/summarizer.py)                                                    *)
(***************************************************************************)

\* ContextStore.summary_threshold_tokens
summary_threshold_tokens == 12

\* ContextStore.needs_summarization on a channel context.
context_needs_summarization(context) ==
    context.total_tokens > summary_threshold_tokens

\* agent.summarizer.ConversationSummary; both fields default to "".
ConversationSummary(user_summary, conversation_summary) ==
    [user_summary |-> user_summary, conversation_summary |-> conversation_summary]

\* What the summarization agent answers when its run succeeds.
SummaryOutputs == {ConversationSummary("s2", "s2")}

\* Summarizer.summarize: the output of agent.run, and a ConversationSummary()
\* of defaults when agent.run raises.
summarize(ok, output) == IF ok THEN output ELSE ConversationSummary("", "")

\* The two add_turn calls of step 14 on a loaded context.
with_turns(context, content, response) ==
    LET h == context.history \o <<ConversationTurn("user", content, "t1"),
                                  ConversationTurn("assistant", response, "t1")>>
    IN  [context EXCEPT !.history = h,
                        !.total_tokens = count_tokens(format_history(h))]

InitSummarization ==
    /\ summ_pending = [c \in ChannelIds |-> 0]
    /\ summ_calling = [c \in ChannelIds |-> 0]
    /\ summ_returned = [channel_id |-> <<>>, call |-> "none", value |-> FALSE]

NoSummarization ==
    /\ summ_pending = [c \in ChannelIds |-> 0]
    /\ summ_calling = [c \in ChannelIds |-> 0]
    /\ summ_returned = [channel_id |-> <<>>, call |-> "unused", value |-> FALSE]

exceptStoreAndSumm ==
    <<orchVars, gwVars, appVars, histVars, compVars, relayVars, indexVars, policyVars,
      skillVars, dirVars, contentVars>>

\* Steps 14 and 15 of Orchestrator.process_message: the user turn and the
\* assistant turn are added, the context is loaded again and a
\* summarize-<channel> task is created when it needs summarization or the
\* compactor asked for one.
process_message_step_15(c, content, response, needs_summary) ==
    /\ store_ops > 0
    /\ LET updated_context == with_turns(load_context(c), content, response)
       IN  /\ files' = [files EXCEPT ![get_channel_path(c)] =
                            File(format_history(updated_context.history))]
           /\ cache' = [cache EXCEPT ![c] = updated_context]
           /\ summ_pending' =
                  IF context_needs_summarization(updated_context) \/ needs_summary
                    THEN [summ_pending EXCEPT ![c] = @ + 1]
                    ELSE summ_pending
    /\ called' = [op |-> "process_message", channel_id |-> c]
    /\ store_ops' = store_ops - 1
    /\ files_before' = files
    /\ UNCHANGED <<summ_calling, summ_returned>>
    /\ UNCHANGED exceptStoreAndSumm

\* ContextStore.trigger_summarization up to its await of the summarizer:
\* the context is loaded, and the call returns False at once when the
\* context does not need summarization.
trigger_summarization_begins(c) ==
    /\ summ_pending[c] > 0
    /\ summ_pending' = [summ_pending EXCEPT ![c] = @ - 1]
    /\ LET context == load_context(c)
       IN  /\ cache' = [cache EXCEPT ![c] = context]
           /\ IF context_needs_summarization(context)
                THEN /\ summ_calling' = [summ_calling EXCEPT ![c] = @ + 1]
                     /\ UNCHANGED summ_returned
                ELSE /\ summ_returned' =
                            [channel_id |-> c, call |-> "skipped", value |-> FALSE]
                     /\ UNCHANGED summ_calling
    /\ called' = [op |-> "trigger_summarization", channel_id |-> c]
    /\ files_before' = files
    /\ UNCHANGED <<files, store_ops>>
    /\ UNCHANGED exceptStoreAndSumm

\* ContextStore.trigger_summarization from the summarizer's answer on:
\* save_summary with the two fields of the answer, then return True.
trigger_summarization_returns(c, ok, output) ==
    /\ summ_calling[c] > 0
    /\ summ_calling' = [summ_calling EXCEPT ![c] = @ - 1]
    /\ LET result == summarize(ok, output)
       IN  /\ files' = save_summary_file(files, c, result.user_summary,
                                         result.conversation_summary)
           /\ cache' = save_summary_cache(cache, c, result.user_summary,
                                          result.conversation_summary)
    /\ summ_returned' = [channel_id |-> c, call |-> IF ok THEN "ok" ELSE "failed",
                         value |-> TRUE]
    /\ called' = [op |-> "trigger_summarization", channel_id |-> c]
    /\ files_before' = files
    /\ UNCHANGED <<summ_pending, store_ops>>
    /\ UNCHANGED exceptStoreAndSumm

NextSummarization ==
    \/ \E c \in ChannelIds, content \in StoreContents, needs_summary \in BOOLEAN :
           process_message_step_15(c, content, <<"x">>, needs_summary)
    \/ \E c \in ChannelIds, role \in {"user", "assistant"}, content \in StoreContents :
           store_add_turn(c, role, content)
    \/ \E c \in ChannelIds, us, cs \in Summaries : store_save_summary(c, us, cs)
    \/ \E c \in ChannelIds : store_clear_context(c)
    \/ \E c \in ChannelIds : trigger_summarization_begins(c)
    \/ \E c \in ChannelIds, ok \in BOOLEAN, output \in SummaryOutputs :
           trigger_summarization_returns(c, ok, output)

(***************************************************************************)
(* Context compactor (core/compaction.py)                                  *)
(***************************************************************************)

\* CompactionConfig.min_messages_to_keep
min_messages_to_keep == 4

Strategies == {"adaptive", "progressive", "truncate"}

\* A content of n tokens.
Words(n) == [i \in 1..n |-> "w"]

Message(role, content) == [role |-> role, content |-> content]

RECURSIVE TotalTokens(_)
\* sum(count_tokens(m.get("content", "")) for m in messages)
TotalTokens(messages) ==
    IF messages = <<>> THEN 0
    ELSE count_tokens(Head(messages).content) + TotalTokens(Tail(messages))

\* count_tokens(existing_summary) if existing_summary else 0
summary_tokens(existing_summary) ==
    IF existing_summary # <<>> THEN count_tokens(existing_summary) ELSE 0

RECURSIVE keep_fitting(_, _, _, _)
\* "for msg in reversed(messages)" of _compact_adaptive and
\* _compact_truncate: a message that fits is put in front of the kept ones,
\* one that does not fit is passed over and the walk goes on.
keep_fitting(messages, available_budget, kept_messages, current_tokens) ==
    IF messages = <<>> THEN kept_messages
    ELSE LET msg == messages[Len(messages)]
             older == SubSeq(messages, 1, Len(messages) - 1)
             msg_tokens == count_tokens(msg.content)
         IN  IF current_tokens + msg_tokens <= available_budget
               THEN keep_fitting(older, available_budget, <<msg>> \o kept_messages,
                                 current_tokens + msg_tokens)
               ELSE keep_fitting(older, available_budget, kept_messages, current_tokens)

RECURSIVE keep_recent(_, _, _, _)
\* The loop of _compact_progressive: it stops at the first message that
\* does not fit.
keep_recent(messages, recent_budget, kept_messages, current_tokens) ==
    IF messages = <<>> THEN kept_messages
    ELSE LET msg == messages[Len(messages)]
             older == SubSeq(messages, 1, Len(messages) - 1)
             msg_tokens == count_tokens(msg.content)
         IN  IF current_tokens + msg_tokens <= recent_budget
               THEN keep_recent(older, recent_budget, <<msg>> \o kept_messages,
                                current_tokens + msg_tokens)
               ELSE kept_messages

\* messages[-n:]
last_messages(messages, n) ==
    IF Len(messages) <= n THEN messages
    ELSE SubSeq(messages, Len(messages) - n + 1, Len(messages))

RECURSIVE message_lines(_)
\* f"[{role}]: {content}" for each message
message_lines(messages) ==
    IF messages = <<>> THEN <<>>
    ELSE << <<"[", Head(messages).role, "]: ">> \o Head(messages).content >>
             \o message_lines(Tail(messages))

\* MessageCompactor._prepare_for_summarization
prepare_for_summarization(messages, existing_summary) ==
    Join((IF existing_summary # <<>>
            THEN << <<"Previous summary:", LF>> \o existing_summary \o <<LF>> >>
            ELSE <<>>)
         \o << <<"Messages to incorporate:", LF>> >>
         \o message_lines(messages), LF)

CompactionResult(messages, new_summary, messages_removed, summary_updated, floor) ==
    [messages |-> messages, summary |-> new_summary,
     messages_removed |-> messages_removed, summary_updated |-> summary_updated,
     floor |-> floor]

\* An adaptive strategy without the minimum.
compact_adaptive_no_floor(messages, token_budget, existing_summary) ==
    LET available_budget == token_budget - summary_tokens(existing_summary)
        kept_messages == keep_fitting(messages, available_budget, <<>>, 0)
    IN  CompactionResult(kept_messages, existing_summary,
                         Len(messages) - Len(kept_messages), FALSE, FALSE)

\* MessageCompactor._compact_adaptive; floor tells that the minimum was
\* enforced.
compact_adaptive(messages, token_budget, existing_summary) ==
    LET available_budget == token_budget - summary_tokens(existing_summary)
        fitting == keep_fitting(messages, available_budget, <<>>, 0)
        floor == Len(fitting) < min_messages_to_keep
        kept_messages == IF floor THEN last_messages(messages, min_messages_to_keep)
                                  ELSE fitting
    IN  CompactionResult(kept_messages, existing_summary,
                         Len(messages) - Len(kept_messages), FALSE, floor)

\* MessageCompactor._compact_progressive; int(token_budget * 0.7)
compact_progressive(messages, token_budget, existing_summary) ==
    LET recent_budget == (token_budget * 7) \div 10
        kept_messages == keep_recent(messages, recent_budget, <<>>, 0)
        cutoff_index == Len(messages) - Len(kept_messages)
        messages_to_summarize == SubSeq(messages, 1, cutoff_index)
    IN  CompactionResult(kept_messages,
                         IF messages_to_summarize # <<>>
                           THEN prepare_for_summarization(messages_to_summarize,
                                                          existing_summary)
                           ELSE <<>>,
                         Len(messages_to_summarize), messages_to_summarize # <<>>,
                         FALSE)

\* MessageCompactor._compact_truncate
compact_truncate(messages, token_budget, existing_summary) ==
    LET available_budget == token_budget - summary_tokens(existing_summary)
        kept_messages == keep_fitting(messages, available_budget, <<>>, 0)
    IN  CompactionResult(kept_messages, existing_summary,
                         Len(messages) - Len(kept_messages), FALSE, FALSE)

MessageLists ==
    SeqsUpTo({Message("user", Words(n)) : n \in 0..MaxContentTokens}, MaxMessages)

InitCompaction ==
    /\ c_strategy \in Strategies
    /\ c_messages \in MessageLists
    /\ c_budget \in 0..MaxBudget
    /\ c_summary \in {Words(n) : n \in 0..MaxContentTokens}
    /\ c_result = CompactionResult(<<>>, <<>>, 0, FALSE, FALSE)
    /\ c_pc = "call"

NoCompaction ==
    /\ c_strategy = "adaptive"
    /\ c_messages = <<>>
    /\ c_budget = 0
    /\ c_summary = <<>>
    /\ c_result = CompactionResult(<<>>, <<>>, 0, FALSE, FALSE)
    /\ c_pc = "unused"

\* compact(messages, token_budget, existing_summary) with the adaptive strategy.
adaptive_returns ==
    /\ c_pc = "call"
    /\ c_strategy = "adaptive"
    /\ c_result' = compact_adaptive(c_messages, c_budget, c_summary)
    /\ c_pc' = "done"
    /\ UNCHANGED <<c_strategy, c_messages, c_budget, c_summary>>
    /\ UNCHANGED exceptComp

\* compact(messages, token_budget, existing_summary) with the progressive strategy.
progressive_returns ==
    /\ c_pc = "call"
    /\ c_strategy = "progressive"
    /\ c_result' = compact_progressive(c_messages, c_budget, c_summary)
    /\ c_pc' = "done"
    /\ UNCHANGED <<c_strategy, c_messages, c_budget, c_summary>>
    /\ UNCHANGED exceptComp

\* compact(messages, token_budget, existing_summary) with the truncate strategy.
truncate_returns ==
    /\ c_pc = "call"
    /\ c_strategy = "truncate"
    /\ c_result' = compact_truncate(c_messages, c_budget, c_summary)
    /\ c_pc' = "done"
    /\ UNCHANGED <<c_strategy, c_messages, c_budget, c_summary>>
    /\ UNCHANGED exceptComp

NextCompaction ==
    \/ adaptive_returns
    \/ progressive_returns
    \/ truncate_returns

(***************************************************************************)
(* Browser relay (relay/server.py): /extension, /cdp and the HTTP routes   *)
(***************************************************************************)

Conns == 1..MaxConns
Clients == 1..MaxClients
HttpReqs == 1..MaxHttp
ReqIds == 1..(MaxCommands + MaxHttp)
CmdIds == {1, 2}
Sessions == {"S1", "S2"}
SessionSeq == <<"S1", "S2">>
Targets == {"T1", "T2"}
TargetTypes == {"page", "worker"}

\* Remote addresses: an octet, a dot, "::1" and "::ffff:" are one character
\* each of the model; the empty address is a request without a peer name.
LocalHost == <<"127", ".", "0", ".", "0", ".", "1">>
LoopbackRemotes ==
    { LocalHost,
      <<"127", ".", "8", ".", "8", ".", "8">>,
      <<"::1">>,
      <<"::ffff:", "127", ".", "0", ".", "0", ".", "1">> }
ForeignRemotes ==
    { <<>>,
      <<"10", ".", "0", ".", "0", ".", "127">>,
      <<"::ffff:", "10", ".", "0", ".", "0", ".", "1">>,
      <<"::2">> }
Remotes == LoopbackRemotes \cup ForeignRemotes

\* str.startswith
has_prefix(s, prefix) ==
    Len(s) >= Len(prefix) /\ SubSeq(s, 1, Len(prefix)) = prefix

\* A check that lets every peer in.
is_loopback_open(remote) == TRUE

\* _is_loopback
is_loopback(remote) ==
    IF remote = <<>> THEN FALSE
    ELSE IF remote = LocalHost THEN TRUE
    ELSE IF has_prefix(remote, <<"127", ".">>) THEN TRUE
    ELSE IF remote = <<"::1">> THEN TRUE
    ELSE IF has_prefix(remote, <<"::ffff:", "127", ".">>) THEN TRUE
    ELSE FALSE

\* The events handed to _broadcast_to_cdp.
DetachedFromTarget(sid, tid) ==
    [method |-> "Target.detachedFromTarget", sessionId |-> sid, targetId |-> tid]
AttachedToTarget(sid, tid) ==
    [method |-> "Target.attachedToTarget", sessionId |-> sid, targetId |-> tid]
TargetCreated(tid) ==
    [method |-> "Target.targetCreated", sessionId |-> "none", targetId |-> tid]

NoEvent == [method |-> "none", sessionId |-> "none", targetId |-> "none"]

\* What a downstream client is sent: an event (relayed, or made up by the
\* relay) or the response to its command cmd_id; from is the upstream request
\* whose reply the response carries (0: answered by the relay itself).
EventMsg(evt, synthetic) ==
    [kind |-> "event", event |-> evt, synthetic |-> synthetic,
     id |-> 0, ok |-> TRUE, from |-> 0]
ResponseMsg(cmd_id, ok, from) ==
    [kind |-> "response", event |-> NoEvent, synthetic |-> FALSE,
     id |-> cmd_id, ok |-> ok, from |-> from]

\* The commands of a downstream client: method, sessionId, and the discover
\* flag or targetId parameter.
Command(method, session_id, arg) ==
    [method |-> method, sessionId |-> session_id, arg |-> arg]
Commands ==
    { Command("Target.setAutoAttach", "none", "none"),
      Command("Target.setAutoAttach", "S1", "none"),
      Command("Target.setDiscoverTargets", "none", "true"),
      Command("Target.setDiscoverTargets", "none", "false"),
      Command("Target.setDiscoverTargets", "S1", "true"),
      Command("Target.attachToTarget", "none", "T1"),
      Command("Page.navigate", "S1", "none") }
NoCommand == Command("none", "none", "none")

\* _pending_extension entries: whose future is stored under a request id.
NoWaiter == [kind |-> "none", n |-> 0]
CdpWaiter(d) == [kind |-> "cdp", n |-> d]
HttpWaiter(h) == [kind |-> "http", n |-> h]

\* The future of _send_to_extension: not made, pending, resolved by the
\* reply to request `from`, or failed.
NoFuture == [state |-> "none", from |-> 0]
Future(state, from) == [state |-> state, from |-> from]

\* web.WebSocketResponse.closed of an upstream connection
closed(c) == ext_pc[c] \in {"closing", "closing_clients", "closed"}

\* "if _extension_ws and not _extension_ws.closed"
extension_connected == extension_ws # 0 /\ ~closed(extension_ws)

RECURSIVE broadcast_to_cdp(_)
\* _broadcast_to_cdp for each event in turn: one _safe_send task per client
\* that is not closed.
broadcast_to_cdp(events) ==
    IF events = <<>> THEN <<>>
    ELSE LET open == SelectSeq([d \in Clients |-> d],
                        LAMBDA d : d \in cdp_clients /\ d \notin cdp_closed)
         IN  [i \in 1..Len(open) |-> [to |-> open[i], msg |-> EventMsg(Head(events), FALSE)]]
                 \o broadcast_to_cdp(Tail(events))

\* The synthetic events of _ensure_target_events_for_client sent to every client.
ensure_target_events_for_all(d, how) ==
    LET known == SelectSeq(SessionSeq, LAMBDA s : connected_targets[s] # "none")
        evt(s) == IF how = "autoAttach"
                    THEN AttachedToTarget(s, connected_targets[s])
                    ELSE TargetCreated(connected_targets[s])
        other == CHOOSE x \in Clients : x # d
    IN  [i \in 1..Len(known) |-> [to |-> d, msg |-> EventMsg(evt(known[i]), TRUE)]]
          \o [i \in 1..Len(known) |-> [to |-> other, msg |-> EventMsg(evt(known[i]), TRUE)]]

\* _ensure_target_events_for_client: one _safe_send task to the client for
\* every entry of _connected_targets.
ensure_target_events_for_client(d, how) ==
    LET known == SelectSeq(SessionSeq, LAMBDA s : connected_targets[s] # "none")
        evt(s) == IF how = "autoAttach"
                    THEN AttachedToTarget(s, connected_targets[s])
                    ELSE TargetCreated(connected_targets[s])
    IN  [i \in 1..Len(known) |-> [to |-> d, msg |-> EventMsg(evt(known[i]), TRUE)]]

\* The synthetic events _ws_cdp adds after _route_cdp_command returned.
synthetic_events(d, cmd) ==
    IF cmd.method = "Target.setAutoAttach" /\ cmd.sessionId = "none"
      THEN ensure_target_events_for_client(d, "autoAttach")
    ELSE IF cmd.method = "Target.setDiscoverTargets" /\ cmd.arg = "true"
      THEN ensure_target_events_for_client(d, "discover")
    ELSE <<>>

\* _send_response_to_cdp: nothing for a closed socket, else a _safe_send task.
send_response_to_cdp(d, res) ==
    IF d \in cdp_closed THEN <<>> ELSE <<[to |-> d, msg |-> res]>>

\* The methods _route_cdp_command answers itself.
LocalMethods == {"Target.setAutoAttach", "Target.setDiscoverTargets", "Target.attachToTarget"}

\* The session of a target in _connected_targets ("none": target not found).
session_of(tid) ==
    IF \E s \in Sessions : connected_targets[s] = tid
      THEN CHOOSE s \in Sessions :
               /\ connected_targets[s] = tid
               /\ \A i, j \in 1..Len(SessionSeq) :
                      (SessionSeq[i] = s /\ connected_targets[SessionSeq[j]] = tid) => i <= j
      ELSE "none"

\* An id allocation that hands out the same id again.
next_id_reused(id) == id

\* "_next_extension_id += 1"
next_id(id) == id + 1

InitRelayWith(nconns, nclients, nhttp, nevents, ncmds) ==
    /\ ext_pc = [c \in Conns |-> IF c <= nconns THEN "idle" ELSE "unused"]
    /\ extension_ws = 0
    /\ connected_targets = [s \in Sessions |-> "none"]
    /\ broadcast_log = <<>>
    /\ ext_event = NoEvent
    /\ relay_events = nevents
    /\ cdp_pc = [d \in Clients |-> IF d <= nclients THEN "idle" ELSE "unused"]
    /\ cdp_clients = {}
    /\ cdp_closed = {}
    /\ send_tasks = <<>>
    /\ delivered = [d \in Clients |-> <<>>]
    /\ pending = [i \in ReqIds |-> NoWaiter]
    /\ next_extension_id = 1
    /\ cdp_wait = [d \in Clients |-> [cmd_id |-> 0, req_id |-> 0]]
    /\ cdp_fut = [d \in Clients |-> NoFuture]
    /\ http_pc = [h \in HttpReqs |-> IF h <= nhttp THEN "idle" ELSE "unused"]
    /\ http_wait = [h \in HttpReqs |-> 0]
    /\ http_fut = [h \in HttpReqs |-> NoFuture]
    /\ forwarded = {}
    /\ closing = [c \in Conns |-> {}]
    /\ cdp_last = [client |-> 0, cmd |-> NoCommand]
    /\ cdp_cmds = ncmds
    /\ peer = <<>>

InitRelay == InitRelayWith(MaxConns, 0, 0, MaxEvents, 0)

NoRelay == InitRelayWith(0, 0, 0, 0, 0)

upstreamVars == <<ext_pc, extension_ws, connected_targets, broadcast_log, ext_event,
                  relay_events>>
waitVars == <<pending, next_extension_id, cdp_wait, cdp_fut, http_wait, http_fut, forwarded>>

\* _loopback_middleware and _ws_extension up to its first suspension: a
\* request from a peer that is not loopback is refused with HTTPForbidden, a
\* request is refused with HTTPConflict when an open upstream is registered,
\* and otherwise awaits ws.prepare(request).
ws_extension_request(c, remote) ==
    /\ ext_pc[c] = "idle"
    /\ peer' = remote
    /\ ext_pc' = [ext_pc EXCEPT ![c] =
           IF ~is_loopback(remote) THEN "forbidden"
           ELSE IF extension_connected THEN "refused"
           ELSE "preparing"]
    /\ UNCHANGED <<extension_ws, connected_targets, broadcast_log, ext_event,
                   relay_events>>
    /\ UNCHANGED <<cdp_pc, cdp_clients, cdp_closed, send_tasks, delivered, waitVars,
                   http_pc, closing, cdp_last, cdp_cmds>>
    /\ UNCHANGED exceptRelay

\* The handshake is done: "_extension_ws = ws", and the receive loop starts.
ws_extension_prepared(c) ==
    /\ ext_pc[c] = "preparing"
    /\ extension_ws' = c
    /\ ext_pc' = [ext_pc EXCEPT ![c] = "open"]
    /\ UNCHANGED <<connected_targets, broadcast_log, ext_event, relay_events>>
    /\ UNCHANGED <<cdp_pc, cdp_clients, cdp_closed, send_tasks, delivered, waitVars,
                   http_pc, closing, cdp_last, cdp_cmds, peer>>
    /\ UNCHANGED exceptRelay

\* The receive loop gets forwardCDPEvent Target.attachedToTarget.
ws_extension_attached(c, sid, tid, type) ==
    /\ ext_pc[c] = "open"
    /\ relay_events > 0
    /\ relay_events' = relay_events - 1
    /\ ext_event' = AttachedToTarget(sid, tid)
    /\ IF type # "page"
         THEN UNCHANGED <<connected_targets, broadcast_log, send_tasks>>
         ELSE LET prev_tid == connected_targets[sid]
                  changed == prev_tid # "none" /\ prev_tid # tid
                  events == (IF changed THEN <<DetachedFromTarget(sid, prev_tid)>>
                                        ELSE <<>>)
                            \o (IF prev_tid = "none" \/ changed
                                  THEN <<AttachedToTarget(sid, tid)>>
                                  ELSE <<>>)
              IN  /\ connected_targets' = [connected_targets EXCEPT ![sid] = tid]
                  /\ broadcast_log' = broadcast_log \o events
                  /\ send_tasks' = send_tasks \o broadcast_to_cdp(events)
    /\ UNCHANGED <<ext_pc, extension_ws>>
    /\ UNCHANGED <<cdp_pc, cdp_clients, cdp_closed, delivered, waitVars,
                   http_pc, closing, cdp_last, cdp_cmds, peer>>
    /\ UNCHANGED exceptRelay

\* The receive loop gets forwardCDPEvent Target.detachedFromTarget.
ws_extension_detached(c, sid, tid) ==
    /\ ext_pc[c] = "open"
    /\ relay_events > 0
    /\ relay_events' = relay_events - 1
    /\ ext_event' = DetachedFromTarget(sid, tid)
    /\ connected_targets' = [connected_targets EXCEPT ![sid] = "none"]
    /\ broadcast_log' = Append(broadcast_log, DetachedFromTarget(sid, tid))
    /\ send_tasks' = send_tasks \o broadcast_to_cdp(<<DetachedFromTarget(sid, tid)>>)
    /\ UNCHANGED <<ext_pc, extension_ws>>
    /\ UNCHANGED <<cdp_pc, cdp_clients, cdp_closed, delivered, waitVars,
                   http_pc, closing, cdp_last, cdp_cmds, peer>>
    /\ UNCHANGED exceptRelay

\* The receive loop gets a message with a numeric id: the reply to a
\* forwarded command.  The future stored under the id is taken out of
\* _pending_extension and resolved with the result or the error.
ws_extension_reply(c, req_id, ok) ==
    /\ ext_pc[c] = "open"
    /\ req_id < next_extension_id
    /\ pending[req_id] # NoWaiter
    /\ LET w == pending[req_id]
           done == Future(IF ok THEN "result" ELSE "error", req_id)
       IN  /\ pending' = [pending EXCEPT ![req_id] = NoWaiter]
           /\ cdp_fut' = IF w.kind = "cdp" /\ cdp_fut[w.n].state = "pending"
                           THEN [cdp_fut EXCEPT ![w.n] = done] ELSE cdp_fut
           /\ http_fut' = IF w.kind = "http" /\ http_fut[w.n].state = "pending"
                            THEN [http_fut EXCEPT ![w.n] = done] ELSE http_fut
    /\ ext_event' = NoEvent
    /\ UNCHANGED <<ext_pc, extension_ws, connected_targets, broadcast_log, relay_events>>
    /\ UNCHANGED <<cdp_pc, cdp_clients, cdp_closed, send_tasks, delivered,
                   next_extension_id, cdp_wait, http_wait, forwarded,
                   http_pc, closing, cdp_last, cdp_cmds, peer>>
    /\ UNCHANGED exceptRelay

\* The socket closes: the receive loop ends and the finally clause awaits
\* the cancelled ping task.
ws_extension_disconnected(c) ==
    /\ ext_pc[c] = "open"
    /\ ext_pc' = [ext_pc EXCEPT ![c] = "closing"]
    /\ ext_event' = NoEvent
    /\ UNCHANGED <<extension_ws, connected_targets, broadcast_log, relay_events>>
    /\ UNCHANGED <<cdp_pc, cdp_clients, cdp_closed, send_tasks, delivered, waitVars,
                   http_pc, closing, cdp_last, cdp_cmds, peer>>
    /\ UNCHANGED exceptRelay

\* A cleanup that forgets the pending requests without failing them.
reject_nothing(f) == f

\* "if not fut.done(): fut.set_exception(ConnectionError(...))"
reject(f) == IF f.state = "pending" THEN Future("error", 0) ELSE f

\* The finally clause after the ping task: "_extension_ws = None", every
\* future in _pending_extension failed, the table and _connected_targets
\* cleared, and the loop over list(_cdp_clients) entered.
ws_extension_cleanup(c) ==
    /\ ext_pc[c] = "closing"
    /\ ext_pc' = [ext_pc EXCEPT ![c] = "closing_clients"]
    /\ extension_ws' = 0
    /\ cdp_fut' = [d \in Clients |->
           IF \E i \in ReqIds : pending[i] = CdpWaiter(d)
             THEN reject(cdp_fut[d]) ELSE cdp_fut[d]]
    /\ http_fut' = [h \in HttpReqs |->
           IF \E i \in ReqIds : pending[i] = HttpWaiter(h)
             THEN reject(http_fut[h]) ELSE http_fut[h]]
    /\ pending' = [i \in ReqIds |-> NoWaiter]
    /\ connected_targets' = [s \in Sessions |-> "none"]
    /\ closing' = [closing EXCEPT ![c] = cdp_clients]
    /\ ext_event' = NoEvent
    /\ UNCHANGED <<broadcast_log, relay_events>>
    /\ UNCHANGED <<cdp_pc, cdp_clients, cdp_closed, send_tasks, delivered,
                   next_extension_id, cdp_wait, http_wait, forwarded,
                   http_pc, cdp_last, cdp_cmds, peer>>
    /\ UNCHANGED exceptRelay

\* "await client.close(code=1011, ...)" for the clients of the list that are
\* not closed yet, one at a time.
ws_extension_close_client(c, d) ==
    /\ ext_pc[c] = "closing_clients"
    /\ d \in closing[c] \ cdp_closed
    /\ cdp_closed' = cdp_closed \cup {d}
    /\ UNCHANGED upstreamVars
    /\ UNCHANGED <<cdp_pc, cdp_clients, send_tasks, delivered, waitVars,
                   http_pc, closing, cdp_last, cdp_cmds, peer>>
    /\ UNCHANGED exceptRelay

\* The loop is over: "_cdp_clients.clear()", and the handler returns.
ws_extension_cleaned(c) ==
    /\ ext_pc[c] = "closing_clients"
    /\ closing[c] \subseteq cdp_closed
    /\ ext_pc' = [ext_pc EXCEPT ![c] = "closed"]
    /\ cdp_clients' = {}
    /\ UNCHANGED <<extension_ws, connected_targets, broadcast_log, ext_event,
                   relay_events>>
    /\ UNCHANGED <<cdp_pc, cdp_closed, send_tasks, delivered, waitVars,
                   http_pc, closing, cdp_last, cdp_cmds, peer>>
    /\ UNCHANGED exceptRelay

\* _loopback_middleware and _ws_cdp up to its first suspension: HTTPForbidden
\* for a peer that is not loopback, HTTPServiceUnavailable without an open
\* upstream, else ws.prepare(request) is awaited.
ws_cdp_request(d, remote) ==
    /\ cdp_pc[d] = "idle"
    /\ peer' = remote
    /\ cdp_pc' = [cdp_pc EXCEPT ![d] =
           IF ~is_loopback(remote) THEN "forbidden"
           ELSE IF ~extension_connected THEN "refused"
           ELSE "preparing"]
    /\ UNCHANGED upstreamVars
    /\ UNCHANGED <<cdp_clients, cdp_closed, send_tasks, delivered, waitVars,
                   http_pc, closing, cdp_last, cdp_cmds>>
    /\ UNCHANGED exceptRelay

\* The handshake is done: "_cdp_clients.add(ws)", and the receive loop starts.
ws_cdp_prepared(d) ==
    /\ cdp_pc[d] = "preparing"
    /\ cdp_pc' = [cdp_pc EXCEPT ![d] = "open"]
    /\ cdp_clients' = cdp_clients \cup {d}
    /\ UNCHANGED upstreamVars
    /\ UNCHANGED <<cdp_closed, send_tasks, delivered, waitVars,
                   http_pc, closing, cdp_last, cdp_cmds, peer>>
    /\ UNCHANGED exceptRelay

\* The receive loop of a client gets a command.  Without an open upstream
\* the client is sent an error.  A method the relay answers itself gets its
\* synthetic events and its response (an error when attachToTarget names an
\* unknown target); attachToTarget writes its attachedToTarget event to the
\* socket before the response is queued.  Any other method is forwarded:
\* _send_to_extension takes the next id, stores the future and awaits it.
ws_cdp_command(d, cmd_id, cmd) ==
    /\ cdp_pc[d] = "open"
    /\ d \notin cdp_closed
    /\ cdp_cmds > 0
    /\ cdp_cmds' = cdp_cmds - 1
    /\ cdp_last' = [client |-> d, cmd |-> cmd]
    /\ IF ~extension_connected
         THEN /\ send_tasks' = send_tasks
                     \o send_response_to_cdp(d, ResponseMsg(cmd_id, FALSE, 0))
              /\ UNCHANGED <<cdp_pc, delivered, waitVars>>
       ELSE IF cmd.method \in LocalMethods
         THEN LET found == cmd.method # "Target.attachToTarget"
                               \/ session_of(cmd.arg) # "none"
                  direct ==
                      IF cmd.method = "Target.attachToTarget" /\ found
                        THEN <<EventMsg(AttachedToTarget(session_of(cmd.arg), cmd.arg),
                                        TRUE)>>
                        ELSE <<>>
              IN  /\ delivered' = [delivered EXCEPT ![d] = @ \o direct]
                  /\ send_tasks' = send_tasks
                         \o (IF found THEN synthetic_events(d, cmd) ELSE <<>>)
                         \o send_response_to_cdp(d, ResponseMsg(cmd_id, found, 0))
                  /\ UNCHANGED <<cdp_pc, waitVars>>
       ELSE LET req_id == next_extension_id
            IN  /\ next_extension_id' = next_id(next_extension_id)
                /\ pending' = [pending EXCEPT ![req_id] = CdpWaiter(d)]
                /\ cdp_fut' = [cdp_fut EXCEPT ![d] = Future("pending", 0)]
                /\ cdp_wait' = [cdp_wait EXCEPT ![d] =
                                   [cmd_id |-> cmd_id, req_id |-> req_id]]
                /\ forwarded' = forwarded \cup
                       {[by |-> CdpWaiter(d), cmd_id |-> cmd_id, req_id |-> req_id]}
                /\ cdp_pc' = [cdp_pc EXCEPT ![d] = "waiting"]
                /\ UNCHANGED <<send_tasks, delivered, http_wait, http_fut>>
    /\ UNCHANGED upstreamVars
    /\ UNCHANGED <<cdp_clients, cdp_closed, http_pc, closing, peer>>
    /\ UNCHANGED exceptRelay

\* The future of a forwarded command is done: _send_to_extension pops its id
\* and returns or raises, and the handler queues the response, with the
\* command's own id, for its own client.
ws_cdp_reply(d) ==
    /\ cdp_pc[d] = "waiting"
    /\ cdp_fut[d].state \in {"result", "error"}
    /\ pending' = [pending EXCEPT ![cdp_wait[d].req_id] = NoWaiter]
    /\ send_tasks' = send_tasks
           \o send_response_to_cdp(d, ResponseMsg(cdp_wait[d].cmd_id,
                                                  cdp_fut[d].state = "result",
                                                  cdp_fut[d].from))
    /\ cdp_fut' = [cdp_fut EXCEPT ![d] = NoFuture]
    /\ cdp_pc' = [cdp_pc EXCEPT ![d] = "open"]
    /\ UNCHANGED upstreamVars
    /\ UNCHANGED <<cdp_clients, cdp_closed, delivered, next_extension_id, cdp_wait,
                   http_wait, http_fut, forwarded, http_pc, closing, cdp_last,
                   cdp_cmds, peer>>
    /\ UNCHANGED exceptRelay

\* asyncio.wait_for(fut, timeout=30.0) times out: the future is cancelled,
\* its id popped, and the client is sent an error.
ws_cdp_timeout(d) ==
    /\ cdp_pc[d] = "waiting"
    /\ cdp_fut[d].state = "pending"
    /\ pending' = [pending EXCEPT ![cdp_wait[d].req_id] = NoWaiter]
    /\ send_tasks' = send_tasks
           \o send_response_to_cdp(d, ResponseMsg(cdp_wait[d].cmd_id, FALSE, 0))
    /\ cdp_fut' = [cdp_fut EXCEPT ![d] = NoFuture]
    /\ cdp_pc' = [cdp_pc EXCEPT ![d] = "open"]
    /\ UNCHANGED upstreamVars
    /\ UNCHANGED <<cdp_clients, cdp_closed, delivered, next_extension_id, cdp_wait,
                   http_wait, http_fut, forwarded, http_pc, closing, cdp_last,
                   cdp_cmds, peer>>
    /\ UNCHANGED exceptRelay

\* The receive loop of a client ends, because the relay closed the socket or
\* the client did: "_cdp_clients.discard(ws)".
ws_cdp_disconnected(d) ==
    /\ cdp_pc[d] = "open"
    /\ cdp_pc' = [cdp_pc EXCEPT ![d] = "closed"]
    /\ cdp_closed' = cdp_closed \cup {d}
    /\ cdp_clients' = cdp_clients \ {d}
    /\ UNCHANGED upstreamVars
    /\ UNCHANGED <<send_tasks, delivered, waitVars, http_pc, closing, cdp_last,
                   cdp_cmds, peer>>
    /\ UNCHANGED exceptRelay

\* The places of the queue of tasks that the bounds let be taken.
TaskSlots == 1..(2 * MaxClients * (MaxEvents + MaxCommands))

\* The event loop runs its ready tasks in the order of their creation.
next_send(tasks) == IF tasks = <<>> THEN {} ELSE {1}

\* A _safe_send task runs: ws.send_str writes the message to the client's
\* socket, or raises for a closed socket, which _safe_send swallows.
safe_send_runs(i) ==
    /\ send_tasks # <<>>
    /\ i \in next_send(send_tasks)
    /\ LET task == send_tasks[i]
       IN  delivered' = IF task.to \in cdp_closed THEN delivered
                        ELSE [delivered EXCEPT ![task.to] = Append(@, task.msg)]
    /\ send_tasks' = SubSeq(send_tasks, 1, i - 1)
                        \o SubSeq(send_tasks, i + 1, Len(send_tasks))
    /\ UNCHANGED upstreamVars
    /\ UNCHANGED <<cdp_pc, cdp_clients, cdp_closed, waitVars, http_pc, closing,
                   cdp_last, cdp_cmds, peer>>
    /\ UNCHANGED exceptRelay

HttpRoutes == {"/", "/extension/status", "/json/version", "/json/list",
               "/json/activate", "/json/close"}
ForwardingRoutes == {"/json/activate", "/json/close"}

\* _loopback_middleware and an HTTP handler up to its first suspension:
\* HTTPForbidden for a peer that is not loopback; the discovery routes answer
\* from the relay state; activate and close forward a command to the
\* upstream with _send_to_extension and ignore its failure.
http_request(h, route, remote) ==
    /\ http_pc[h] = "idle"
    /\ peer' = remote
    /\ IF ~is_loopback(remote)
         THEN /\ http_pc' = [http_pc EXCEPT ![h] = "forbidden"]
              /\ UNCHANGED waitVars
       ELSE IF route \notin ForwardingRoutes \/ ~extension_connected
         THEN /\ http_pc' = [http_pc EXCEPT ![h] = "done"]
              /\ UNCHANGED waitVars
       ELSE LET req_id == next_extension_id
            IN  /\ next_extension_id' = next_id(next_extension_id)
                /\ pending' = [pending EXCEPT ![req_id] = HttpWaiter(h)]
                /\ http_fut' = [http_fut EXCEPT ![h] = Future("pending", 0)]
                /\ http_wait' = [http_wait EXCEPT ![h] = req_id]
                /\ forwarded' = forwarded \cup
                       {[by |-> HttpWaiter(h), cmd_id |-> 0, req_id |-> req_id]}
                /\ http_pc' = [http_pc EXCEPT ![h] = "waiting"]
                /\ UNCHANGED <<cdp_wait, cdp_fut>>
    /\ UNCHANGED upstreamVars
    /\ UNCHANGED <<cdp_pc, cdp_clients, cdp_closed, send_tasks, delivered, closing,
                   cdp_last, cdp_cmds>>
    /\ UNCHANGED exceptRelay

\* The future of an HTTP handler is done or times out; the handler answers OK.
http_returns(h) ==
    /\ http_pc[h] = "waiting"
    /\ pending' = [pending EXCEPT ![http_wait[h]] = NoWaiter]
    /\ http_fut' = [http_fut EXCEPT ![h] = NoFuture]
    /\ http_pc' = [http_pc EXCEPT ![h] = "done"]
    /\ UNCHANGED upstreamVars
    /\ UNCHANGED <<cdp_pc, cdp_clients, cdp_closed, send_tasks, delivered,
                   next_extension_id, cdp_wait, cdp_fut, http_wait, forwarded, closing,
                   cdp_last, cdp_cmds, peer>>
    /\ UNCHANGED exceptRelay

\* The upstream side: connections from the local host and their events.
NextRelay ==
    \/ \E c \in Conns : ws_extension_request(c, LocalHost)
    \/ \E c \in Conns : ws_extension_prepared(c)
    \/ \E c \in Conns, sid \in Sessions, tid \in Targets, type \in TargetTypes :
           ws_extension_attached(c, sid, tid, type)
    \/ \E c \in Conns, sid \in Sessions, tid \in Targets :
           ws_extension_detached(c, sid, tid)
    \/ \E c \in Conns : ws_extension_disconnected(c)
    \/ \E c \in Conns : ws_extension_cleanup(c)
    \/ \E c \in Conns : ws_extension_cleaned(c)

\* Downstream clients that ask for the targets of one upstream.
DiscoveryCommands == {c \in Commands : c.method \in {"Target.setAutoAttach",
                                                      "Target.setDiscoverTargets"}}
NextDiscovery ==
    \/ \E c \in Conns : ws_extension_request(c, LocalHost)
    \/ \E c \in Conns : ws_extension_prepared(c)
    \/ \E c \in Conns, sid \in Sessions, tid \in {"T1"} :
           ws_extension_attached(c, sid, tid, "page")
    \/ \E d \in Clients : ws_cdp_request(d, LocalHost)
    \/ \E d \in Clients : ws_cdp_prepared(d)
    \/ \E d \in Clients, cmd \in DiscoveryCommands : ws_cdp_command(d, 1, cmd)
    \/ \E d \in Clients : ws_cdp_disconnected(d)
    \/ \E i \in TaskSlots : safe_send_runs(i)

\* Downstream clients and HTTP requests whose commands are forwarded to an
\* upstream that replies, stays silent or disconnects.
NextForward ==
    \/ \E c \in Conns : ws_extension_request(c, LocalHost)
    \/ \E c \in Conns : ws_extension_prepared(c)
    \/ \E c \in Conns, i \in ReqIds, ok \in BOOLEAN : ws_extension_reply(c, i, ok)
    \/ \E c \in Conns : ws_extension_disconnected(c)
    \/ \E c \in Conns : ws_extension_cleanup(c)
    \/ \E c \in Conns, d \in Clients : ws_extension_close_client(c, d)
    \/ \E c \in Conns : ws_extension_cleaned(c)
    \/ \E d \in Clients : ws_cdp_request(d, LocalHost)
    \/ \E d \in Clients : ws_cdp_prepared(d)
    \/ \E d \in Clients, k \in CmdIds :
           ws_cdp_command(d, k, Command("Page.navigate", "S1", "none"))
    \/ \E d \in Clients : ws_cdp_reply(d)
    \/ \E d \in Clients : ws_cdp_timeout(d)
    \/ \E d \in Clients : ws_cdp_disconnected(d)
    \/ \E i \in TaskSlots : safe_send_runs(i)
    \/ \E h \in HttpReqs : http_request(h, "/json/activate", LocalHost)
    \/ \E h \in HttpReqs : http_returns(h)

\* Downstream clients that are sent the events of one upstream.
NextEvents ==
    \/ \E c \in Conns : ws_extension_request(c, LocalHost)
    \/ \E c \in Conns : ws_extension_prepared(c)
    \/ \E c \in Conns, sid \in {"S1"}, tid \in Targets :
           ws_extension_attached(c, sid, tid, "page")
    \/ \E c \in Conns, sid \in {"S1"}, tid \in {"T1"} :
           ws_extension_detached(c, sid, tid)
    \/ \E d \in Clients : ws_cdp_request(d, LocalHost)
    \/ \E d \in Clients : ws_cdp_prepared(d)
    \/ \E d \in Clients, tid \in Targets :
           ws_cdp_command(d, 1, Command("Target.attachToTarget", "none", tid))
    \/ \E d \in Clients : ws_cdp_disconnected(d)
    \/ \E i \in TaskSlots : safe_send_runs(i)

\* Requests from every kind of peer on every endpoint.
NextAccess ==
    \/ \E c \in Conns, remote \in Remotes : ws_extension_request(c, remote)
    \/ \E c \in Conns : ws_extension_prepared(c)
    \/ \E d \in Clients, remote \in Remotes : ws_cdp_request(d, remote)
    \/ \E d \in Clients : ws_cdp_prepared(d)
    \/ \E h \in HttpReqs, route \in HttpRoutes, remote \in Remotes :
           http_request(h, route, remote)
    \/ \E h \in HttpReqs : http_returns(h)
    \/ \E c \in Conns : ws_extension_disconnected(c)
    \/ \E c \in Conns : ws_extension_cleanup(c)
    \/ \E c \in Conns, d \in Clients : ws_extension_close_client(c, d)
    \/ \E c \in Conns : ws_extension_cleaned(c)

(***************************************************************************)
(* Memory index (core/memory_index.py): chunks, full-text and vector rows  *)
(***************************************************************************)

IndexPaths == {"notes.md", "todo.md"}

\* The texts that are indexed: a text is the sequence of its lines
\* (text.split("\n")), a line the sequence of its words.  The empty text has
\* one empty line.
Docs ==
    << << <<>> >>,
       << <<"a">>, <<"b", "c">> >>,
       << <<"a">>, <<"b">>, <<"c", "d">> >> >>
DocIds == DOMAIN Docs

\* hashlib.sha256(content.encode()).hexdigest()[:16]: one digest per text.
content_hash(doc) == CHOOSE i \in DocIds : Docs[i] = doc

RECURSIVE overlap_lines(_, _)
\* The lines kept as overlap: taken from the end of the chunk for as long as
\* their tokens stay within chunk_overlap.
overlap_lines(lines, overlap_tokens) ==
    IF lines = <<>> THEN <<>>
    ELSE LET lt == count_tokens(lines[Len(lines)])
         IN  IF overlap_tokens + lt > chunk_overlap THEN <<>>
             ELSE Append(overlap_lines(SubSeq(lines, 1, Len(lines) - 1),
                                       overlap_tokens + lt),
                         lines[Len(lines)])

RECURSIVE LinesTokens(_)
LinesTokens(lines) ==
    IF lines = <<>> THEN 0 ELSE count_tokens(Head(lines)) + LinesTokens(Tail(lines))

RECURSIVE chunk_from(_, _, _, _, _)
\* The loop of _chunk_text at line i, and the chunk saved after it.
chunk_from(lines, i, chunks, current_chunk_lines, start_line) ==
    IF i > Len(lines)
      THEN IF current_chunk_lines # <<>>
             THEN Append(chunks, [start_line |-> start_line, end_line |-> Len(lines),
                                  text |-> current_chunk_lines])
             ELSE chunks
      ELSE IF LinesTokens(current_chunk_lines) + count_tokens(lines[i]) > chunk_size
              /\ current_chunk_lines # <<>>
             THEN LET kept == overlap_lines(current_chunk_lines, 0)
                  IN  chunk_from(lines, i + 1,
                                 Append(chunks, [start_line |-> start_line,
                                                 end_line |-> i - 1,
                                                 text |-> current_chunk_lines]),
                                 Append(kept, lines[i]),
                                 i - Len(kept))
             ELSE chunk_from(lines, i + 1, chunks,
                             Append(current_chunk_lines, lines[i]), start_line)

\* _chunk_text
chunk_text(doc) == chunk_from(doc, 1, <<>>, <<>>, 1)

\* A database: the rows of chunks, the hash in files of each path (0: no
\* row), the rowids of chunks_fts as a bag, the chunk ids of chunks_vec, and
\* the AUTOINCREMENT counter.
EmptyDb ==
    [chunks |-> {}, files |-> [p \in IndexPaths |-> 0], fts |-> EmptyBag,
     vec |-> {}, next_id |-> 1]

\* "DELETE FROM chunks WHERE path = ?" with the trigger chunks_ad.
delete_chunks(db, path) ==
    LET gone == {r \in db.chunks : r.path = path}
    IN  [db EXCEPT !.chunks = @ \ gone,
                   !.fts = @ (-) SetToBag({r.id : r \in gone})]

\* "DELETE FROM chunks_vec WHERE chunk_id IN (SELECT id FROM chunks WHERE
\* path = ?)": the ids are those of the rows chunks holds when it runs.
delete_vec(db, path) ==
    [db EXCEPT !.vec = @ \ {r.id : r \in {x \in db.chunks : x.path = path}}]

RECURSIVE insert_chunks(_, _, _, _)
\* The loop "INSERT INTO chunks" with the trigger chunks_ai and, when
\* with_vec, "INSERT INTO chunks_vec" under the new row's id.
insert_chunks(db, path, chunks, with_vec) ==
    IF chunks = <<>> THEN db
    ELSE LET chunk_id == db.next_id
             row == [id |-> chunk_id, path |-> path, text |-> Head(chunks).text,
                     start_line |-> Head(chunks).start_line,
                     end_line |-> Head(chunks).end_line, embedding |-> TRUE]
         IN  insert_chunks(
                 [db EXCEPT !.chunks = @ \cup {row},
                            !.fts = @ (+) SetToBag({chunk_id}),
                            !.vec = IF with_vec THEN @ \cup {chunk_id} ELSE @,
                            !.next_id = chunk_id + 1],
                 path, Tail(chunks), with_vec)

\* "INSERT OR REPLACE INTO files"
replace_file(db, path, hash) == [db EXCEPT !.files[path] = hash]

NoIndexCall == [kind |-> "none", path |-> "none", doc |-> 0]

InitIndexWith(nops, vec_modes) ==
    /\ ix_disk = [p \in IndexPaths |-> 0]
    /\ ix_db = EmptyDb
    /\ ix_committed = EmptyDb
    /\ use_vec \in vec_modes
    /\ ix_pc = "idle"
    /\ ix_call = NoIndexCall
    /\ ix_ops = nops

InitIndex == InitIndexWith(MaxIndexOps, BOOLEAN)

InitReindex == InitIndexWith(MaxReindexOps, BOOLEAN)

NoIndex == InitIndexWith(0, {FALSE})

\* A memory file is written on disk.
file_written(path, doc) ==
    /\ ix_pc = "idle"
    /\ ix_ops > 0
    /\ ix_disk[path] # doc
    /\ ix_ops' = ix_ops - 1
    /\ ix_disk' = [ix_disk EXCEPT ![path] = doc]
    /\ UNCHANGED <<ix_db, ix_committed, use_vec, ix_pc, ix_call>>
    /\ UNCHANGED exceptIndex

\* index_file up to "await embed_batch(texts)", called directly or by sync
\* for each of its paths: 0 for a missing file and for a file whose hash is
\* the one in files; else the old chunks are deleted, and 0 is returned when
\* the text has no chunk.
index_file_begin(path) ==
    /\ ix_pc = "idle"
    /\ ix_ops > 0
    /\ ix_ops' = ix_ops - 1
    /\ IF ix_disk[path] = 0 \/ ix_db.files[path] = content_hash(Docs[ix_disk[path]])
         THEN UNCHANGED <<ix_db, ix_pc, ix_call>>
         ELSE LET deleted == delete_chunks(ix_db, path)
              IN  /\ ix_db' = IF use_vec THEN delete_vec(deleted, path) ELSE deleted
                  /\ IF chunk_text(Docs[ix_disk[path]]) = <<>>
                       THEN UNCHANGED <<ix_pc, ix_call>>
                       ELSE /\ ix_pc' = "embedding"
                            /\ ix_call' = [kind |-> "file", path |-> path,
                                           doc |-> ix_disk[path]]
    /\ UNCHANGED <<ix_disk, ix_committed, use_vec>>
    /\ UNCHANGED exceptIndex

\* embed_batch returns or raises in index_file: 0 is returned after an error;
\* else the chunks are inserted, the file row replaced and the transaction
\* committed.
index_file_embedded(ok) ==
    /\ ix_pc = "embedding"
    /\ ix_call.kind = "file"
    /\ ix_pc' = "idle"
    /\ ix_call' = NoIndexCall
    /\ IF ~ok
         THEN UNCHANGED <<ix_db, ix_committed>>
         ELSE LET doc == Docs[ix_call.doc]
                  done == replace_file(
                              insert_chunks(ix_db, ix_call.path, chunk_text(doc), use_vec),
                              ix_call.path, content_hash(doc))
              IN  /\ ix_db' = done
                  /\ ix_committed' = done
    /\ UNCHANGED <<ix_disk, use_vec, ix_ops>>
    /\ UNCHANGED exceptIndex

\* index_text up to "await embed_batch(texts)": the old chunks are deleted.
index_text_begin(path, d) ==
    /\ ix_pc = "idle"
    /\ ix_ops > 0
    /\ ix_ops' = ix_ops - 1
    /\ ix_db' = delete_chunks(ix_db, path)
    /\ IF chunk_text(Docs[d]) = <<>>
         THEN UNCHANGED <<ix_pc, ix_call>>
         ELSE /\ ix_pc' = "embedding"
              /\ ix_call' = [kind |-> "text", path |-> path, doc |-> d]
    /\ UNCHANGED <<ix_disk, ix_committed, use_vec>>
    /\ UNCHANGED exceptIndex

\* embed_batch returns or raises in index_text: as in index_file, without
\* rows in chunks_vec.
index_text_embedded(ok) ==
    /\ ix_pc = "embedding"
    /\ ix_call.kind = "text"
    /\ ix_pc' = "idle"
    /\ ix_call' = NoIndexCall
    /\ IF ~ok
         THEN UNCHANGED <<ix_db, ix_committed>>
         ELSE LET doc == Docs[ix_call.doc]
                  done == replace_file(
                              insert_chunks(ix_db, ix_call.path, chunk_text(doc), FALSE),
                              ix_call.path, content_hash(doc))
              IN  /\ ix_db' = done
                  /\ ix_committed' = done
    /\ UNCHANGED <<ix_disk, use_vec, ix_ops>>
    /\ UNCHANGED exceptIndex

NextIndex ==
    \/ \E path \in IndexPaths, d \in DocIds : file_written(path, d)
    \/ \E path \in IndexPaths : index_file_begin(path)
    \/ \E ok \in BOOLEAN : index_file_embedded(ok)
    \/ \E path \in IndexPaths, d \in DocIds : index_text_begin(path, d)
    \/ \E ok \in BOOLEAN : index_text_embedded(ok)

\* Memory files that are written and indexed again, by index_file or sync.
NextReindex ==
    \/ \E path \in IndexPaths, d \in DocIds : file_written(path, d)
    \/ \E path \in IndexPaths : index_file_begin(path)
    \/ \E ok \in BOOLEAN : index_file_embedded(ok)

(***************************************************************************)
(* Tool policy (core/tool_policy.py)                                       *)
(***************************************************************************)

ToolGroups == {"fs", "web", "memory", "sessions", "ui", "automation", "messaging",
               "database", "storage", "scheduler", "system"}
ToolProfiles == {"minimal", "coding", "messaging", "full"}

PROFILE_GROUPS ==
    [profile \in ToolProfiles |->
        CASE profile = "minimal" -> {"system"}
          [] profile = "coding" -> {"system", "fs", "database"}
          [] profile = "messaging" -> {"system", "messaging", "web"}
          [] profile = "full" -> ToolGroups]

\* ToolInfo; group "none" is None.
ToolInfos ==
    [name : {"shell"},
     group : {"none", "system", "fs", "web"},
     groups : {<<>>, <<"fs">>, <<"web", "memory">>},
     approval_required : BOOLEAN,
     dangerous : BOOLEAN,
     admin_only : BOOLEAN]

\* ToolPolicyConfig; group_overrides is the set of its items.
ToolPolicyConfigs ==
    [allowlist : {{}, {"shell"}},
     denylist : {{}, {"shell", "exec"}},
     dangerous_tools : {{}, {"shell"}},
     group_overrides : {{}, {<<"fs", TRUE>>}, {<<"system", FALSE>>},
                        {<<"web", TRUE>>, <<"fs", FALSE>>}}]

PolicyCalls ==
    [tool : ToolInfos, profile : ToolProfiles, elevated : BOOLEAN,
     config : ToolPolicyConfigs]

ToolPolicyResult(allowed, requires_approval, requires_elevation) ==
    [allowed |-> allowed, requires_approval |-> requires_approval,
     requires_elevation |-> requires_elevation]

NoPolicyResult == ToolPolicyResult(FALSE, FALSE, FALSE)

\* ToolPolicy.get_allowed_groups
get_allowed_groups(config, profile) ==
    (PROFILE_GROUPS[profile] \ {o[1] : o \in {x \in config.group_overrides : ~x[2]}})
        \cup {o[1] : o \in {x \in config.group_overrides : x[2]}}

\* An evaluation that looks at the allowlist before the denylist.
evaluate_allowlist_first(call) ==
    LET tool == call.tool
        config == call.config
    IN  IF tool.name \in config.allowlist
          THEN ToolPolicyResult(TRUE, tool.approval_required, FALSE)
        ELSE IF tool.name \in config.denylist
          THEN ToolPolicyResult(FALSE, FALSE, FALSE)
        ELSE IF (tool.admin_only \/ tool.dangerous
                   \/ tool.name \in config.dangerous_tools) /\ ~call.elevated
          THEN ToolPolicyResult(FALSE, FALSE, TRUE)
        ELSE IF tool.group = "none" /\ tool.groups = <<>>
          THEN ToolPolicyResult(call.profile = "full",
                                call.profile = "full" /\ tool.approval_required, FALSE)
        ELSE IF tool.group \in get_allowed_groups(config, call.profile)
                  \/ \E i \in DOMAIN tool.groups :
                         tool.groups[i] \in get_allowed_groups(config, call.profile)
          THEN ToolPolicyResult(TRUE, tool.approval_required, FALSE)
        ELSE ToolPolicyResult(FALSE, FALSE, FALSE)

\* ToolPolicy.evaluate
evaluate(call) ==
    LET tool == call.tool
        config == call.config
        allowed_groups == get_allowed_groups(config, call.profile)
    IN  IF tool.name \in config.denylist
          THEN ToolPolicyResult(FALSE, FALSE, FALSE)
        ELSE IF tool.name \in config.allowlist
          THEN ToolPolicyResult(TRUE, tool.approval_required, FALSE)
        ELSE IF tool.admin_only /\ ~call.elevated
          THEN ToolPolicyResult(FALSE, FALSE, TRUE)
        ELSE IF (tool.dangerous \/ tool.name \in config.dangerous_tools) /\ ~call.elevated
          THEN ToolPolicyResult(FALSE, FALSE, TRUE)
        ELSE IF tool.group = "none" /\ tool.groups = <<>>
          THEN IF call.profile = "full"
                 THEN ToolPolicyResult(TRUE, tool.approval_required, FALSE)
                 ELSE ToolPolicyResult(FALSE, FALSE, FALSE)
        ELSE IF tool.group # "none" /\ tool.group \in allowed_groups
          THEN ToolPolicyResult(TRUE, tool.approval_required, FALSE)
        ELSE IF \E i \in DOMAIN tool.groups : tool.groups[i] \in allowed_groups
          THEN ToolPolicyResult(TRUE, tool.approval_required, FALSE)
        ELSE ToolPolicyResult(FALSE, FALSE, FALSE)

InitPolicy ==
    /\ policy_call \in PolicyCalls
    /\ policy_result = NoPolicyResult
    /\ policy_pc = "call"

NoPolicy ==
    /\ policy_call = [tool |-> [name |-> "shell", group |-> "none", groups |-> <<>>,
                                approval_required |-> FALSE, dangerous |-> FALSE,
                                admin_only |-> FALSE],
                      profile |-> "full", elevated |-> FALSE,
                      config |-> [allowlist |-> {}, denylist |-> {},
                                  dangerous_tools |-> {}, group_overrides |-> {}]]
    /\ policy_result = NoPolicyResult
    /\ policy_pc = "unused"

\* ToolPolicy.evaluate is called and returns.
evaluate_returns ==
    /\ policy_pc = "call"
    /\ policy_result' = evaluate(policy_call)
    /\ policy_pc' = "done"
    /\ UNCHANGED policy_call
    /\ UNCHANGED exceptPolicy

NextPolicy == evaluate_returns

(***************************************************************************)
(* Skills registry (core/skills_registry.py)                               *)
(***************************************************************************)

SkillSources == {"extra", "bundled", "managed", "workspace"}
SkillIds == {"deploy", "review"}

SOURCE_PRECEDENCE ==
    [source \in SkillSources |->
        CASE source = "extra" -> 0
          [] source = "bundled" -> 1
          [] source = "managed" -> 2
          [] source = "workspace" -> 3]

\* A skill file: the id in it, the source it is loaded for, and whether
\* _check_skill_eligibility finds it eligible.
SkillFiles == [id : SkillIds, source : SkillSources, eligible : BOOLEAN]

\* A SkillDefinition: id, source, and the file it was parsed from.
Skill(id, source, file) == [id |-> id, source |-> source, file |-> file]
NoSkill == Skill("none", "none", 0)

\* A registry in which the file loaded last always wins.
keeps_existing_never(existing, source) == FALSE

\* "if new_precedence < existing_precedence: continue"
keeps_existing(existing, source) ==
    SOURCE_PRECEDENCE[source] < SOURCE_PRECEDENCE[existing.source]

\* The body of the loop of _load_skills_from_path for one skill file: the
\* registry after it.
register(skills, f, file) ==
    IF ~f.eligible THEN skills
    ELSE IF skills[f.id] # NoSkill /\ keeps_existing(skills[f.id], f.source) THEN skills
    ELSE [skills EXCEPT ![f.id] = Skill(f.id, f.source, file)]

RECURSIVE load_files(_, _, _)
\* The registry after the files from place `file` of an order are loaded.
load_files(skills, order, file) ==
    IF file > Len(order) THEN skills
    ELSE load_files(register(skills, order[file], file), order, file + 1)

InitSkillsWith(orders) ==
    /\ sk_order \in orders
    /\ sk_pending = sk_order
    /\ sk_skills = [id \in SkillIds |-> NoSkill]
    /\ sk_ineligible = {}

InitSkills == InitSkillsWith(UNION {[1..n -> SkillFiles] : n \in 0..MaxSkillFiles})

NoSkills == InitSkillsWith({<<>>})

\* _load_skills_from_path comes to the next skill file: an ineligible skill
\* is noted and skipped, a skill of lower precedence than the registered one
\* is skipped, any other is registered.
load_skill_file ==
    /\ sk_pending # <<>>
    /\ LET f == Head(sk_pending)
           file == Len(sk_order) - Len(sk_pending) + 1
       IN  /\ sk_skills' = register(sk_skills, f, file)
           /\ sk_ineligible' = IF f.eligible THEN sk_ineligible
                               ELSE sk_ineligible \cup {f.id}
    /\ sk_pending' = Tail(sk_pending)
    /\ UNCHANGED sk_order
    /\ UNCHANGED exceptSkills

NextSkills == load_skill_file

(***************************************************************************)
(* Directive parser (helpers/directives.py)                                *)
(***************************************************************************)

\* A text is a sequence of characters.  The raw texts are the concatenations
\* of at most MaxFragments of these fragments: whole tokens in lower and
\* mixed case, the two halves of a token, white space, a word character and
\* a punctuation character.
MaxFragments == 3
MaxParses == 2
MaxSummOps == 2

Fragments ==
    { <<"/", "t", "h", "i", "n", "k">>,
      <<"/", "T", "h", "i", "n", "K">>,
      <<"/", "e", "l", "e", "v", "a", "t", "e", "d">>,
      <<"/", "c", "o", "d", "i", "n", "g">>,
      <<"/", "f", "u", "l", "l">>,
      <<"/", "q", "u", "i", "e", "t">>,
      <<"/", "t", "h">>,
      <<"i", "n", "k">>,
      <<" ">>,
      <<LF>>,
      <<"x">>,
      <<":">> }

RECURSIVE concat(_)
concat(parts) ==
    IF parts = <<>> THEN <<>> ELSE Head(parts) \o concat(Tail(parts))

Texts == {concat(parts) : parts \in UNION {[1..n -> Fragments] : n \in 0..MaxFragments}}

DIRECTIVE_PATTERNS ==
    << [pattern |-> <<"/", "t", "h", "i", "n", "k">>, directive |-> "think"],
       [pattern |-> <<"/", "v", "e", "r", "b", "o", "s", "e">>, directive |-> "verbose"],
       [pattern |-> <<"/", "r", "e", "a", "s", "o", "n", "i", "n", "g">>,
        directive |-> "reasoning"],
       [pattern |-> <<"/", "e", "l", "e", "v", "a", "t", "e", "d">>,
        directive |-> "elevated"] >>

TOOL_PROFILE_PATTERNS ==
    << [pattern |-> <<"/", "m", "i", "n", "i", "m", "a", "l">>, profile |-> "minimal"],
       [pattern |-> <<"/", "c", "o", "d", "i", "n", "g">>, profile |-> "coding"],
       [pattern |-> <<"/", "m", "e", "s", "s", "a", "g", "i", "n", "g">>,
        profile |-> "messaging"],
       [pattern |-> <<"/", "f", "u", "l", "l">>, profile |-> "full"] >>

PROMPT_MODE_PATTERNS ==
    << [pattern |-> <<"/", "q", "u", "i", "e", "t">>, prompt_mode |-> "minimal"],
       [pattern |-> <<"/", "s", "i", "l", "e", "n", "t">>, prompt_mode |-> "none"] >>

\* re.IGNORECASE: characters are compared in lower case.
lower(c) ==
    CASE c = "T" -> "t"
      [] c = "K" -> "k"
      [] OTHER -> c

\* \w and \s of the re module.
is_word(c) ==
    lower(c) \in {"a", "b", "c", "d", "e", "f", "g", "h", "i", "j", "k", "l", "m",
                  "n", "o", "p", "q", "r", "s", "t", "u", "v", "w", "x", "y", "z",
                  "0", "1", "2", "3", "4", "5", "6", "7", "8", "9", "_"}
is_space(c) == c \in Whitespace

\* Patterns without the trailing \b.
no_word_boundary(text, j) == TRUE

\* \b between text[j - 1] and text[j]: exactly one side is a word character.
word_boundary(text, j) ==
    LET before == j > 1 /\ j - 1 <= Len(text) /\ is_word(text[j - 1])
        after == j >= 1 /\ j <= Len(text) /\ is_word(text[j])
    IN  before # after

\* The pattern followed by \b matches text at position i.
matches_at(pattern, text, i) ==
    /\ i + Len(pattern) - 1 <= Len(text)
    /\ \A k \in 1..Len(pattern) : lower(text[i + k - 1]) = pattern[k]
    /\ word_boundary(text, i + Len(pattern))

\* re.search(pattern, text, re.IGNORECASE)
search(pattern, text) == \E i \in 1..Len(text) : matches_at(pattern, text, i)

\* re.sub(pattern, "", text, flags=re.IGNORECASE): every match found scanning
\* text from the left is removed.
RECURSIVE sub_from(_, _, _)
sub_from(pattern, text, i) ==
    IF i > Len(text) THEN <<>>
    ELSE IF matches_at(pattern, text, i) THEN sub_from(pattern, text, i + Len(pattern))
    ELSE <<text[i]>> \o sub_from(pattern, text, i + 1)

sub(pattern, text) == sub_from(pattern, text, 1)

RECURSIVE skip_space(_, _)
skip_space(text, i) ==
    IF i <= Len(text) /\ is_space(text[i]) THEN skip_space(text, i + 1) ELSE i

\* re.sub(r"\s+", " ", text)
RECURSIVE collapse_from(_, _)
collapse_from(text, i) ==
    IF i > Len(text) THEN <<>>
    ELSE IF is_space(text[i]) THEN <<" ">> \o collapse_from(text, skip_space(text, i))
    ELSE <<text[i]>> \o collapse_from(text, i + 1)

ParsedDirectives(directives, clean_text, prompt_mode, tool_profile, elevated) ==
    [directives |-> directives, clean_text |-> clean_text, prompt_mode |-> prompt_mode,
     tool_profile |-> tool_profile, elevated |-> elevated]

\* The three loops of parse_directives, each over its patterns in the order
\* of the dictionary.
RECURSIVE extract_directives(_, _)
extract_directives(parsed, k) ==
    IF k > Len(DIRECTIVE_PATTERNS) THEN parsed
    ELSE LET p == DIRECTIVE_PATTERNS[k]
         IN  IF search(p.pattern, parsed.clean_text)
             THEN extract_directives(
                      [parsed EXCEPT !.directives = Append(@, p.directive),
                                     !.clean_text = sub(p.pattern, @),
                                     !.elevated = @ \/ p.directive = "elevated"], k + 1)
             ELSE extract_directives(parsed, k + 1)

RECURSIVE extract_tool_profile(_, _)
extract_tool_profile(parsed, k) ==
    IF k > Len(TOOL_PROFILE_PATTERNS) THEN parsed
    ELSE LET p == TOOL_PROFILE_PATTERNS[k]
         IN  IF search(p.pattern, parsed.clean_text)
             THEN extract_tool_profile(
                      [parsed EXCEPT !.tool_profile = p.profile,
                                     !.clean_text = sub(p.pattern, @)], k + 1)
             ELSE extract_tool_profile(parsed, k + 1)

RECURSIVE extract_prompt_mode(_, _)
extract_prompt_mode(parsed, k) ==
    IF k > Len(PROMPT_MODE_PATTERNS) THEN parsed
    ELSE LET p == PROMPT_MODE_PATTERNS[k]
         IN  IF search(p.pattern, parsed.clean_text)
             THEN extract_prompt_mode(
                      [parsed EXCEPT !.prompt_mode = p.prompt_mode,
                                     !.clean_text = sub(p.pattern, @)], k + 1)
             ELSE extract_prompt_mode(parsed, k + 1)

parse_directives(text) ==
    IF text = <<>> THEN ParsedDirectives(<<>>, <<>>, "full", "full", FALSE)
    ELSE LET extracted ==
                 extract_prompt_mode(
                     extract_tool_profile(
                         extract_directives(
                             ParsedDirectives(<<>>, text, "full", "full", FALSE), 1), 1), 1)
         IN  [extracted EXCEPT !.clean_text = strip(collapse_from(@, 1))]

InitDirectivesWith(texts) ==
    /\ dir_text \in texts
    /\ dir_results = <<>>

InitDirectives == InitDirectivesWith(Texts)

NoDirectives == InitDirectivesWith({<<>>})

\* parse_directives returns: the first call is given the raw text, every
\* later one the cleaned text the call before it returned.
parse_directives_returns ==
    /\ Len(dir_results) < MaxParses
    /\ dir_results' =
           Append(dir_results,
                  parse_directives(IF dir_results = <<>> THEN dir_text
                                   ELSE dir_results[Len(dir_results)].clean_text))
    /\ UNCHANGED dir_text
    /\ UNCHANGED exceptDirectives

NextDirectives == parse_directives_returns

(***************************************************************************)
(* Message content in the pipeline (core/orchestrator.py, steps 2, 4, 14)  *)
(***************************************************************************)

\* InboundMessage.get_content
get_content(text, directives) ==
    IF directives # <<>> /\ directives[1].clean_text # <<>>
      THEN directives[1].clean_text
      ELSE text

InitContentWith(texts) ==
    /\ msg_text \in texts
    /\ msg_directives = <<>>
    /\ msg_pc = IF texts = {<<>>} THEN "unused" ELSE "received"
    /\ validated = <<>>
    /\ persisted = <<>>

InitContent == InitContentWith(Texts)

NoContent == InitContentWith({<<>>})

\* process_message, steps 2 to 4: a text that is not empty is parsed, and the
\* content of the message, if not empty, is handed to the security filter.
process_message_checks(secure) ==
    /\ msg_pc = "received"
    /\ LET directives == IF msg_text # <<>> THEN <<parse_directives(msg_text)>> ELSE <<>>
           text_to_validate == get_content(msg_text, directives)
       IN  /\ msg_directives' = directives
           /\ IF text_to_validate # <<>>
                THEN /\ validated' = Append(validated, text_to_validate)
                     /\ msg_pc' = IF secure THEN "agent" ELSE "rejected"
                ELSE /\ UNCHANGED validated
                     /\ msg_pc' = "agent"
    /\ UNCHANGED <<msg_text, persisted>>
    /\ UNCHANGED exceptContent

\* process_message, step 14, after the agent returned: the content of the
\* message is saved as the user turn.
process_message_saves ==
    /\ msg_pc = "agent"
    /\ persisted' = Append(persisted, get_content(msg_text, msg_directives))
    /\ msg_pc' = "saved"
    /\ UNCHANGED <<msg_text, msg_directives, validated>>
    /\ UNCHANGED exceptContent

\* The agent raises: process_message propagates it, nothing is saved.
process_message_raises ==
    /\ msg_pc = "agent"
    /\ msg_pc' = "error"
    /\ UNCHANGED <<msg_text, msg_directives, validated, persisted>>
    /\ UNCHANGED exceptContent

NextContent ==
    \/ \E secure \in BOOLEAN : process_message_checks(secure)
    \/ process_message_saves
    \/ process_message_raises

NoLib == NoHistory /\ NoStore /\ NoCompaction /\ NoRelay /\ NoIndex /\ NoPolicy /\ NoSkills /\ NoDirectives /\ NoContent /\ NoSummarization

(***************************************************************************)
(* Application entry point                                                 *)
(***************************************************************************)
Modes == {"cli", "websocket", "all"}

\* The gateways setup_gateways registers for a gateway_type.
setup_gateways(md) == IF md = "all" THEN Names ELSE {md}

\* A channel history left by an earlier run, long enough that the next
\* answered message makes the context need summarization.
PriorHistory == [i \in 1..SummaryThreshold |->
                    Turn(IF i % 2 = 1 THEN "user" ELSE "assistant", 0)]

\* The components are driven directly, without run_application.
NoApp ==
    /\ mode = "all"
    /\ app_pc = "embedded"
    /\ shutdown_event = FALSE
    /\ memory_index = "none"

\* run_application after orchestrator.start() and the installation of the
\* signal handlers, before start_all.
InitApp ==
    /\ mode \in Modes
    /\ app_pc = "startup"
    /\ shutdown_event = FALSE
    /\ memory_index \in {"open", "none"}
    /\ InitGateways(setup_gateways(mode), FALSE, 0)
    /\ InitOrch(AppMsgs, PriorHistory)
    /\ orch_running = TRUE
    /\ ptask = "running"
    /\ NoLib

\* The wait of run_application is over: in cli mode the supervisor's
\* shutdown event is set, otherwise the application's own.
WaitOver == IF mode = "cli" THEN gm_shutdown ELSE shutdown_event

\* handle_signal: SIGINT or SIGTERM is delivered.
handle_signal ==
    /\ app_pc \notin {"embedded", "done"}
    /\ ~shutdown_event
    /\ shutdown_event' = TRUE
    /\ UNCHANGED <<libVars, mode, app_pc, memory_index>>
    /\ UNCHANGED <<gwVars, orchVars>>

\* await gateway_manager.start_all(), up to the gather.
app_start_all ==
    /\ app_pc = "startup"
    /\ app_pc' = "start_all"
    /\ start_all_spawn
    /\ UNCHANGED <<info, pstat, tpc, tcancel, cwait, rinfo, autoinc, ops>>
    /\ UNCHANGED <<libVars, mode, shutdown_event, memory_index>>
    /\ UNCHANGED <<gwConf, orchVars>>

\* start_all returns; run_application waits for its shutdown condition.
app_start_all_returned ==
    /\ app_pc = "start_all"
    /\ app_pc' = "waiting"
    /\ start_all_collect
    /\ UNCHANGED <<info, pstat, tpc, tcancel, cwait, rinfo, autoinc, ops>>
    /\ UNCHANGED <<libVars, mode, shutdown_event, memory_index>>
    /\ UNCHANGED <<gwConf, orchVars>>

\* The wait returns: await gateway_manager.stop_all(), up to the gather.
app_wait_returned ==
    /\ app_pc = "waiting"
    /\ WaitOver
    /\ app_pc' = "stop_all"
    /\ stop_all_spawn
    /\ UNCHANGED <<info, pstat, tpc, tcancel, cwait, rinfo, autoinc, ops>>
    /\ UNCHANGED <<libVars, mode, shutdown_event, memory_index>>
    /\ UNCHANGED <<gwConf, orchVars>>

\* stop_all returns; Orchestrator.stop clears _running, cancels the
\* processing task and awaits it.
app_stop_all_returned ==
    /\ app_pc = "stop_all"
    /\ app_pc' = "orchestrator_stop"
    /\ stop_all_collect
    /\ orch_running' = FALSE
    /\ ptask' = IF ptask = "running" THEN "cancelling" ELSE ptask
    /\ UNCHANGED <<info, pstat, tpc, tcancel, cwait, rinfo, autoinc, ops, gwConf>>
    /\ UNCHANGED <<libVars, mode, shutdown_event, memory_index>>
    /\ UNCHANGED <<queue, submitted, mpc, mchan, mvalid, msecure, mresp, loaded, sent, history,
                   disk, summ, summary, respAtSumm>>

\* The processing task gets its CancelledError at the await it is
\* suspended in: a handler in flight is abandoned, _process_loop breaks.
process_loop_cancelled ==
    /\ ptask = "cancelling"
    /\ ptask' = "done"
    /\ mpc' = [m \in Msgs |-> IF mpc[m] \in InHandler THEN "cancelled" ELSE mpc[m]]
    /\ UNCHANGED <<queue, submitted, mchan, mvalid, msecure, mresp, loaded, sent, history,
                   disk, summ, summary, orch_running, respAtSumm>>
    /\ UNCHANGED <<gwVars, appVars, libVars>>

\* Orchestrator.stop returns after the bus's stop(); close_browser_tools
\* awaits close_browser_resources under its timeout.
app_orchestrator_stopped ==
    /\ app_pc = "orchestrator_stop"
    /\ ptask = "done"
    /\ app_pc' = "close_browser"
    /\ UNCHANGED <<libVars, mode, shutdown_event, memory_index>>
    /\ UNCHANGED <<gwVars, orchVars>>

\* close_browser_resources returns, raises or times out (logged either
\* way); close_cdp_resources is awaited under its timeout.
app_browser_closed ==
    /\ app_pc = "close_browser"
    /\ app_pc' = "close_cdp"
    /\ UNCHANGED <<libVars, mode, shutdown_event, memory_index>>
    /\ UNCHANGED <<gwVars, orchVars>>

\* close_cdp_resources returns, raises or times out; the memory index is
\* closed if there is one and run_application returns.
app_cdp_closed ==
    /\ app_pc = "close_cdp"
    /\ app_pc' = "done"
    /\ memory_index' = IF memory_index = "open" THEN "closed" ELSE memory_index
    /\ UNCHANGED <<libVars, mode, shutdown_event>>
    /\ UNCHANGED <<gwVars, orchVars>>

\* The steps the event loop takes on its own: every step of the running
\* application but the arrival of a signal or of an inbound message.
AppProgress ==
    \/ app_start_all
    \/ app_start_all_returned
    \/ app_wait_returned
    \/ app_stop_all_returned
    \/ process_loop_cancelled
    \/ app_orchestrator_stopped
    \/ app_browser_closed
    \/ app_cdp_closed
    \/ \E g \in Names : start_gateway_begin(g)
    \/ \E g \in Names, s \in Slots, ok \in BOOLEAN : start_gateway_initialized(g, s, ok)
    \/ \E g \in Names, s \in Slots, ok \in BOOLEAN : start_gateway_started(g, s, ok)
    \/ \E g \in Names : stop_gateway_begin(g)
    \/ \E g \in Names, s \in Slots, ok \in BOOLEAN : stop_gateway_stopped(g, s, ok)
    \/ \E g \in Names, s \in Slots : stop_gateway_task_done(g, s)
    \/ \E g \in Names, i \in TaskIds : run_raises(g, i)
    \/ \E g \in Names, i \in TaskIds : run_returns(g, i)
    \/ \E g \in Names, i \in TaskIds : task_cancelled(g, i)
    \/ \E m \in Msgs, valid, secure \in BOOLEAN : process_message_begin(m, valid, secure)
    \/ \E m \in Msgs : agent_raises(m)
    \/ \E m \in Msgs, w \in 0..2 : agent_returns(m, w)
    \/ \E m \in Msgs : send_returns(m)
    \/ \E m \in Msgs : summarization_begin(m)
    \/ \E m \in Msgs, ok \in BOOLEAN : summarization_end(m, ok)

NextApp ==
    \/ handle_signal
    \/ \E m \in Msgs, c \in Channels : enqueue_message(m, c)
    \/ AppProgress

(***************************************************************************)
(* Claims about the orchestration pipeline                                 *)
(***************************************************************************)
Range(s) == {s[i] : i \in 1..Len(s)}

Pos(m) == CHOOSE i \in 1..Len(submitted) : submitted[i] = m

\* The message's process_message went past load_context.
Loaded(m) == mpc[m] \in {"agent", "error"} \/ mresp[m] = "answer"

\* The turns the messages of s on channel c that satisfy keep contribute,
\* a user turn followed by an assistant turn each, in the order of s.
RECURSIVE PairsOf(_, _, _)
PairsOf(s, c, keep) ==
    IF s = <<>> THEN <<>>
    ELSE LET m == Head(s)
         IN  (IF mchan[m] = c /\ m \in keep
                THEN <<Turn("user", m), Turn("assistant", m)>> ELSE <<>>)
             \o PairsOf(Tail(s), c, keep)

OnChannel(c) == {m \in Range(submitted) : mchan[m] = c}

AllProcessed(c) == \A m \in OnChannel(c) : mpc[m] \in Terminal

\* C1: every message the validator accepted has, once _handle_message has
\* returned, had exactly one response handed to a gateway's send.
C1_ExactlyOneResponse ==
    \A m \in Msgs : (mvalid[m] /\ mpc[m] \in Terminal) => sent[m] = 1

Rejected(m) ==
    /\ mpc[m] \in {"agent", "sending", "done", "error", "cancelled"}
    /\ ~(mvalid[m] /\ msecure[m])

\* C11: a message rejected by the validator or by the security filter gets
\* a rejection response and never reaches the agent; its context was not
\* loaded, none of its turns is in any channel's cached or persisted
\* history, it scheduled no summarization, and the step that rejects it
\* leaves every channel's cache, file and summary as they were.
C11_RejectionExitsEarly ==
    /\ [](\A m \in Msgs : Rejected(m) =>
              /\ mresp[m] = "rejection"
              /\ mpc[m] # "agent"
              /\ loaded[m] = <<>>
              /\ summ[m] = "none"
              /\ \A c \in Channels : \A role \in {"user", "assistant"} :
                     Turn(role, m) \notin Range(history[c]) \cup Range(disk[c]))
    /\ [][\A m \in Msgs : (~Rejected(m) /\ Rejected(m)') =>
              /\ history' = history
              /\ disk' = disk
              /\ summary' = summary
              /\ summ' = summ]_vars

C11_Witness ==
    \E m1, m2 \in Msgs :
        /\ mvalid[m1] /\ ~msecure[m1] /\ mpc[m1] = "done"
        /\ ~mvalid[m2] /\ mpc[m2] = "done"
        /\ Len(disk[mchan[m1]]) >= 2

\* Summarizer calls in flight on channel c.
InFlight(c) == {m \in Msgs : mchan[m] = c /\ summ[m] = "calling"}

\* C12: at most one summarization is in flight per channel at any time.
C12_OneSummarizationPerChannel ==
    \A c \in Channels : Cardinality(InFlight(c)) <= 1

\* C13: the summarization scheduled while a message was processed has made
\* no summarizer call and written no summary before the send of that
\* message's response returned.
C13_SummarizationAfterResponse ==
    \A m \in Msgs :
        (summ[m] = "calling" \/ summary[mchan[m]] = m) => mpc[m] = "done"

\* add_turn raised for m: a turn of m is in the cached history and the
\* channel's file lacks m's assistant turn.
WriteFailed(m) ==
    /\ Turn("user", m) \in Range(history[mchan[m]])
    /\ Turn("assistant", m) \notin Range(disk[mchan[m]])

\* C14: a message whose user or assistant turn could not be persisted still
\* has its answer built and handed to the gateway.
C14_ResponseDespiteWriteFailure ==
    \A m \in Msgs : WriteFailed(m) => (mresp[m] = "answer" /\ sent[m] >= 1)

(***************************************************************************)
(* Claims about the gateway supervisor                                     *)
(***************************************************************************)
\* A start or run task of gateway g raises in this step: its record moves
\* to ERROR, or its run task leaves _run() by an exception.
FailureStep(g) ==
    \/ info'[g].status = "error" /\ info'[g] # info[g]
    \/ \E i \in TaskIds : tpc[g][i] = "run" /\ tpc'[g][i] \in {"sleep", "failed"}

\* The step leaves gateway g alone: its record, its run tasks and its calls.
Untouched(g) ==
    /\ info'[g] = info[g]
    /\ pstat'[g] = pstat[g]
    /\ tpc'[g] = tpc[g]
    /\ tcancel'[g] = tcancel[g]
    /\ cpc'[g] = cpc[g]
    /\ cwait'[g] = cwait[g]

\* C4: a step in which a start or run task of one gateway raises leaves
\* every other gateway's status, task handle, error, restart_count, run
\* tasks and calls unchanged; and once start_all has returned, its result
\* holds an outcome for every registered gateway and every one of them was
\* attempted.
C4_GatewayIndependence ==
    /\ [][\A g1 \in registered : \A g2 \in registered \ {g1} :
              FailureStep(g1) => Untouched(g2)]_vars
    /\ []((\E g \in Names : sa_results[g] # "none") =>
              \A g \in registered : /\ sa_results[g] \in {"true", "false"}
                                    /\ info[g].status # "registered")

C4_Witness ==
    \E g1 \in registered : \E g2 \in registered \ {g1} :
        /\ sa_results[g1] = "true" /\ sa_results[g2] = "true"
        /\ info[g1].status = "error"
        /\ info[g2].status = "running"
        /\ tpc[g2][info[g2].task] = "run"
        /\ \E i \in TaskIds : tpc[g1][i] = "failed"

\* The run tasks of g that are in an automatic restart.
Restarting(g) == {i \in TaskIds : tpc[g][i] \in {"sleep", "start"}}

\* C5: restart_count never exceeds max_restarts and at most max_restarts
\* automatic restarts happen; a run task that raises moves the gateway to
\* ERROR and goes on to restart it exactly when auto_restart is enabled and
\* restart_count is below max_restarts; with auto_restart disabled no run
\* task ever restarts its gateway.
C5_AutoRestartCapped ==
    /\ [](\A g \in Names :
              /\ info[g].restart_count <= MaxRestarts
              /\ autoinc[g] <= MaxRestarts
              /\ ~auto_restart => (autoinc[g] = 0 /\ Restarting(g) = {}))
    /\ [][\A g \in Names : \A i \in TaskIds :
              (tpc[g][i] = "run" /\ tpc'[g][i] \in {"sleep", "failed"})
                  => /\ info'[g].status = "error"
                     /\ (tpc'[g][i] = "sleep")
                            <=> (auto_restart /\ info[g].restart_count < MaxRestarts)
                     /\ info'[g].restart_count =
                            info[g].restart_count + (IF tpc'[g][i] = "sleep" THEN 1 ELSE 0)]_vars

C5_Witness ==
    \E g \in Names :
        /\ auto_restart
        /\ info[g].restart_count = MaxRestarts
        /\ info[g].status = "error"
        /\ Cardinality({i \in TaskIds : tpc[g][i] = "done"}) = MaxRestarts
        /\ \E i \in TaskIds : tpc[g][i] = "failed"
        /\ Restarting(g) = {}

\* C6: when a restart_gateway call that found its gateway running awaits
\* the provider's start(), the provider's stop() has been called in that
\* restart and the run task the call found is no longer live.
C6_StopBeforeStart ==
    \A g \in Names :
        (cpc[g]["restart"] = "start" /\ rinfo[g].running /\ rinfo[g].old # 0)
            => /\ rinfo[g].stopped
               /\ tpc[g][rinfo[g].old] \notin Live

\* C7: when a restart_gateway call returns, the gateway's restart_count,
\* automatic restarts aside, is one more than when the call was made.
C7_RestartBumpsCount ==
    [][\A g \in Names :
           (cpc[g]["restart"] # "idle" /\ cpc'[g]["restart"] = "idle")
               => info'[g].restart_count - autoinc'[g] = rinfo[g].base + 1]_vars

\* C8: when stop_gateway (called directly or by stop_all) returns true, the
\* gateway's status is stopped (registered if it was never started), its
\* task handle is cleared and none of its run tasks is live.
C8_StoppedAfterStop ==
    [][\A g \in Names : \A s \in {"stop", "stop_all"} :
           (cpc[g][s] # "done" /\ cpc'[g][s] = "done" /\ cres'[g][s] = "true")
               => /\ info'[g].status \in {"stopped", "registered"}
                  /\ info'[g].task = 0
                  /\ \A i \in TaskIds : tpc'[g][i] \notin Live]_vars

(***************************************************************************)
(* Claims about the application entry point                                *)
(***************************************************************************)
\* C9: in every gateway mode, once run_application waits and a signal has
\* been delivered, it eventually completes its shutdown and returns.
C9_SignalLeadsToShutdown == (app_pc = "waiting" /\ shutdown_event) ~> (app_pc = "done")

\* C10: when the shutdown is complete, no background summarization task is
\* still scheduled or running.
C10_NoSummarizerAfterShutdown ==
    app_pc = "done" => \A m \in Msgs : summ[m] \notin {"scheduled", "calling"}

(***************************************************************************)
(* Claims about the context store                                          *)
(***************************************************************************)

Mutators == {"add_turn", "save_summary", "clear_context"}

\* Same turns by role and content in the same order, same two summaries.
Equivalent(a, b) ==
    /\ Len(a.history) = Len(b.history)
    /\ \A i \in DOMAIN a.history :
           /\ a.history[i].role = b.history[i].role
           /\ a.history[i].content = b.history[i].content
    /\ a.user_summary = b.user_summary
    /\ a.conversation_summary = b.conversation_summary

\* C15: after a mutator on a channel has returned, the channel's cached
\* context, when there is one, is equivalent to what a load that reads the
\* channel's files would return.
C15_CacheMatchesFiles ==
    (called.op \in Mutators /\ cache[called.channel_id].present) =>
        Equivalent(cache[called.channel_id], read_context(files, called.channel_id))

\* C16: a history file written by the formatter, parsed and formatted again
\* gives the same file.
C16_FileRoundTrip ==
    h_pc = "refile" => h_refile = h_file

\* C17: a mutator called on one channel leaves what a load from the files
\* returns for every other channel as it was.
C17_ChannelIsolation ==
    \A b \in ChannelIds :
        (called.op \in Mutators /\ b # called.channel_id) =>
            read_context(files, b) = read_context(files_before, b)

(***************************************************************************)
(* Claims about the context compactor                                      *)
(***************************************************************************)

\* Tokens of the kept messages plus tokens of the returned summary.
ResultTokens(r) == TotalTokens(r.messages) + count_tokens(r.summary)

\* C18: under every strategy the kept messages and the returned summary
\* together fit the token budget, unless the adaptive strategy enforced its
\* minimum, and then exactly min_messages_to_keep messages are kept.
C18_WithinBudget ==
    c_pc = "done" =>
        \/ ResultTokens(c_result) <= c_budget
        \/ /\ c_strategy = "adaptive"
           /\ c_result.floor
           /\ Len(c_result.messages) = min_messages_to_keep

(***************************************************************************)
(* Claims about the browser relay                                          *)
(***************************************************************************)

\* The upstream connections whose receive loop is running.
Upstreams == {c \in Conns : ext_pc[c] = "open"}

\* C19: at most one upstream connection is open at a time, and it is the
\* registered one.
C19_SingleUpstream ==
    /\ Cardinality(Upstreams) <= 1
    /\ \A c \in Upstreams : extension_ws = c

\* C20: when Target.attachedToTarget arrives with a new session s2 for a
\* target that the table holds under session s1, the relay broadcasts
\* Target.detachedFromTarget for (s1, target) and then the new
\* Target.attachedToTarget, and the table no longer holds the s1 entry.
C20_ReattachReplacesSession ==
    [][\A s1, s2 \in Sessions, t \in Targets :
          ( /\ s1 # s2
            /\ connected_targets[s1] = t
            /\ connected_targets[s2] = "none"
            /\ relay_events' < relay_events
            /\ ext_event' = AttachedToTarget(s2, t)
            /\ connected_targets'[s2] = t )
          => /\ connected_targets'[s1] = "none"
             /\ broadcast_log' = broadcast_log
                    \o <<DetachedFromTarget(s1, t), AttachedToTarget(s2, t)>>]_vars

(***************************************************************************)
(* Claims about the downstream side of the browser relay                   *)
(***************************************************************************)

\* The step in which the receive loop of client d handles cmd with an open
\* upstream registered.
CommandHandled(d, cmd) ==
    /\ cdp_cmds' = cdp_cmds - 1
    /\ cdp_last' = [client |-> d, cmd |-> cmd]
    /\ extension_connected

\* The send tasks a step has created.
Created == SubSeq(send_tasks', Len(send_tasks) + 1, Len(send_tasks'))

\* The synthetic events among them that go to client d.
SyntheticTo(d) ==
    {Created[i].msg.event : i \in {j \in DOMAIN Created :
                                      Created[j].to = d /\ Created[j].msg.synthetic}}

\* The events that describe every known target to a client that sent cmd.
KnownTargetEvents(cmd) ==
    {IF cmd.method = "Target.setAutoAttach"
       THEN AttachedToTarget(s, connected_targets[s])
       ELSE TargetCreated(connected_targets[s]) :
     s \in {x \in Sessions : connected_targets[x] # "none"}}

RootAsking ==
    {c \in Commands :
        \/ c.method = "Target.setAutoAttach" /\ c.sessionId = "none"
        \/ c.method = "Target.setDiscoverTargets" /\ c.arg = "true"}
Asking ==
    {c \in Commands :
        \/ c.method = "Target.setAutoAttach"
        \/ c.method = "Target.setDiscoverTargets" /\ c.arg = "true"}

ResponsesTo(d) ==
    {delivered[d][i] : i \in {j \in DOMAIN delivered[d] :
                                 delivered[d][j].kind = "response"}}
      \cup {send_tasks[i].msg : i \in {j \in DOMAIN send_tasks :
                                   send_tasks[j].to = d /\ send_tasks[j].msg.kind = "response"}}

\* C22: no two forwarded commands are given the same request id, the future
\* of a waiting handler is the one stored under its request id, and a
\* response that carries the upstream's reply to a request goes to the client
\* that issued the request, with the command id that client used.
C22_ReplyReachesIssuer ==
    /\ \A a, b \in forwarded : a.req_id = b.req_id => a = b
    /\ \A d \in Clients :
           (cdp_pc[d] = "waiting" /\ cdp_fut[d].state = "pending")
           => pending[cdp_wait[d].req_id] = CdpWaiter(d)
    /\ \A d \in Clients :
           (cdp_pc[d] = "waiting" /\ cdp_fut[d].state = "result")
           => cdp_fut[d].from = cdp_wait[d].req_id
    /\ \A d \in Clients : \A r \in ResponsesTo(d) :
           r.from > 0
           => [by |-> CdpWaiter(d), cmd_id |-> r.id, req_id |-> r.from] \in forwarded

\* Two clients had commands with the same command id in flight at once: one
\* has been sent the upstream's reply to its own, later, request while the
\* other still waits.
C22_Witness ==
    \E d, e \in Clients :
        /\ d # e
        /\ cdp_pc[e] = "waiting"
        /\ cdp_fut[e].state = "pending"
        /\ \E i \in DOMAIN delivered[d] :
               /\ delivered[d][i].kind = "response"
               /\ delivered[d][i].ok
               /\ delivered[d][i].id = cdp_wait[e].cmd_id
               /\ delivered[d][i].from > cdp_wait[e].req_id

\* The futures of the handlers that await a reply.
Unresolved ==
    {CdpWaiter(d) : d \in {x \in Clients : cdp_pc[x] = "waiting"
                                           /\ cdp_fut[x].state = "pending"}}
      \cup {HttpWaiter(h) : h \in {x \in HttpReqs : http_pc[x] = "waiting"
                                                    /\ http_fut[x].state = "pending"}}

\* The cleanup of upstream c rejects the pending requests and empties the
\* tables in this step.
CleanupRuns(c) == ext_pc[c] = "closing" /\ ext_pc'[c] = "closing_clients"

\* C23: every unresolved request is in the pending table; the cleanup of a
\* disconnected upstream fails every one of them and leaves the pending table
\* and the targets table empty; and when the cleanup has returned, every
\* downstream connection that was in the client set is closed and out of
\* the client set.
C23_CleanupLeavesNoResidue ==
    /\ [](\A w \in Unresolved : \E i \in ReqIds : pending[i] = w)
    /\ [][\A c \in Conns :
             CleanupRuns(c)
             => /\ \A i \in ReqIds : pending'[i] = NoWaiter
                /\ \A s \in Sessions : connected_targets'[s] = "none"
                /\ \A d \in Clients :
                       CdpWaiter(d) \in Unresolved
                       => cdp_fut'[d] = Future("error", 0)
                /\ \A h \in HttpReqs :
                       HttpWaiter(h) \in Unresolved
                       => http_fut'[h] = Future("error", 0)
                /\ closing'[c] = cdp_clients]_vars
    /\ [](\A c \in Conns :
             ext_pc[c] = "closed"
             => /\ closing[c] \subseteq cdp_closed
                /\ closing[c] \cap cdp_clients = {})

\* The cleanup of an upstream has returned: it had closed a client whose
\* forwarded command was pending, and that client has been sent nothing.
C23_Witness ==
    \E c \in Conns, d \in Clients :
        /\ ext_pc[c] = "closed"
        /\ d \in closing[c]
        /\ cdp_pc[d] = "closed"
        /\ \E f \in forwarded : f.by = CdpWaiter(d)
        /\ delivered[d] = <<>>
        /\ \A i \in ReqIds : pending[i] = NoWaiter

\* The events of session s written to the socket of client d, in the order
\* of writing.
SessionEvents(d, s) ==
    LET evts == SelectSeq(delivered[d],
                    LAMBDA m : m.kind = "event" /\ m.event.sessionId = s)
    IN  [i \in DOMAIN evts |-> evts[i].event]

\* The places of an event among the events the relay got from the upstream.
Places(evt) == {i \in DOMAIN broadcast_log : broadcast_log[i] = evt}

\* Every place of b is before every place of a.
ReceivedBefore(b, a) ==
    /\ Places(a) # {}
    /\ Places(b) # {}
    /\ \A i \in Places(b), j \in Places(a) : i < j

\* C24: no client is sent an event of a session before an event of the same
\* session that the relay received earlier from the upstream.
C24_SessionOrderKept ==
    \A d \in Clients, s \in Sessions :
        LET evts == SessionEvents(d, s)
        IN  \A i, j \in DOMAIN evts :
                i < j => ~ReceivedBefore(evts[j], evts[i])

\* The same for the events the relay passes on from the upstream, without
\* the attachedToTarget event that answers Target.attachToTarget.
RelayedInOrder ==
    \A d \in Clients, s \in Sessions :
        LET evts == SelectSeq(delivered[d],
                        LAMBDA m : m.kind = "event" /\ ~m.synthetic
                                   /\ m.event.sessionId = s)
        IN  \A i, j \in DOMAIN evts :
                i < j => ~ReceivedBefore(evts[j].event, evts[i].event)

\* A request arrives in this step: a handler leaves its start.
RequestArrives ==
    \/ \E c \in Conns : ext_pc[c] = "idle" /\ ext_pc'[c] # "idle"
    \/ \E d \in Clients : cdp_pc[d] = "idle" /\ cdp_pc'[d] # "idle"
    \/ \E h \in HttpReqs : http_pc[h] = "idle" /\ http_pc'[h] # "idle"

\* The handler that left its start in this step answered HTTPForbidden.
AnsweredForbidden ==
    /\ \A c \in Conns : ext_pc'[c] # ext_pc[c] => ext_pc'[c] = "forbidden"
    /\ \A d \in Clients : cdp_pc'[d] # cdp_pc[d] => cdp_pc'[d] = "forbidden"
    /\ \A h \in HttpReqs : http_pc'[h] # http_pc[h] => http_pc'[h] = "forbidden"

\* A handler that answered HTTPForbidden does nothing more.
ForbiddenIsFinal ==
    /\ \A c \in Conns : ext_pc[c] = "forbidden" => ext_pc'[c] = "forbidden"
    /\ \A d \in Clients : cdp_pc[d] = "forbidden" => cdp_pc'[d] = "forbidden"
    /\ \A h \in HttpReqs : http_pc[h] = "forbidden" => http_pc'[h] = "forbidden"

\* C25: a request to /extension, to /cdp or to an HTTP route from a peer that
\* is not loopback is answered HTTPForbidden and leaves the upstream, the
\* client set, the targets, the pending table, the id counter, the commands
\* sent upstream and the queued sends as they were; its handler never runs on.
C25_ForeignPeerRefused ==
    [][/\ (RequestArrives /\ peer' \in ForeignRemotes)
          => /\ AnsweredForbidden
             /\ UNCHANGED <<extension_ws, cdp_clients, cdp_closed, connected_targets,
                            pending, next_extension_id, forwarded, send_tasks,
                            delivered>>
       /\ ForbiddenIsFinal]_vars

\* With an upstream and a downstream client registered, requests from foreign
\* peers to /extension, /cdp and an HTTP route have all been refused.
C25_Witness ==
    /\ extension_connected
    /\ cdp_clients # {}
    /\ peer \in ForeignRemotes
    /\ \E c \in Conns : ext_pc[c] = "forbidden"
    /\ \E d \in Clients : cdp_pc[d] = "forbidden"
    /\ \E h \in HttpReqs : http_pc[h] = "forbidden"

(***************************************************************************)
(* Claims about the memory index                                           *)
(***************************************************************************)

\* The chunks of a path in a database, without their row ids.
ChunksOf(db, path) ==
    {[start_line |-> r.start_line, end_line |-> r.end_line, text |-> r.text] :
       r \in {x \in db.chunks : x.path = path}}

\* The path has no file row and no chunk, or it has the chunks of the text
\* whose hash its file row holds, each once.
Whole(db, path) ==
    IF db.files[path] = 0 THEN ChunksOf(db, path) = {}
    ELSE LET doc == Docs[CHOOSE i \in DocIds : content_hash(Docs[i]) = db.files[path]]
             chunks == chunk_text(doc)
         IN  /\ ChunksOf(db, path) = {chunks[i] : i \in DOMAIN chunks}
             /\ Cardinality({r \in db.chunks : r.path = path}) = Len(chunks)

\* C26: between the calls of index_file and sync, the index as the
\* connection sees it, and the index as committed, hold for every path the
\* complete chunks of the text recorded for it: the old ones with the old
\* file row, or the new ones with the new file row.
C26_ReindexAtomic ==
    ix_pc = "idle"
    => \A path \in IndexPaths : Whole(ix_db, path) /\ Whole(ix_committed, path)

\* The same for the committed database alone, at any moment.
C26_CommittedWhole == \A path \in IndexPaths : Whole(ix_committed, path)

\* The rowids of chunks_fts are the ids of the chunks, each once.
FtsExact(db) ==
    \A id \in 1..db.next_id :
        CopiesIn(id, db.fts) = IF \E r \in db.chunks : r.id = id THEN 1 ELSE 0

\* The chunk ids of chunks_vec are the ids of the chunks with an embedding.
VecExact(db) == db.vec = {r.id : r \in {x \in db.chunks : x.embedding}}

\* C27: between the calls of index_file, index_text and sync, chunks_fts has
\* one row for every chunk and no other row, and with the vector table in
\* use chunks_vec has one row for every chunk with an embedding and no other.
C27_IndexRowsMatchChunks ==
    ix_pc = "idle" => FtsExact(ix_db) /\ (use_vec => VecExact(ix_db))

\* The full-text half of C27, at any moment.
FtsRowsMatchChunks == FtsExact(ix_db) /\ FtsExact(ix_committed)

(***************************************************************************)
(* Claims about the tool policy                                            *)
(***************************************************************************)

\* The rules of the policy in their order: when a rule applies, and what it
\* decides.
PolicyRules(call) ==
    LET tool == call.tool
        config == call.config
        allowed_groups == get_allowed_groups(config, call.profile)
        Rule(applies, allowed, elevation) ==
            [applies |-> applies, allowed |-> allowed, elevation |-> elevation]
    IN  << Rule(tool.name \in config.denylist, FALSE, FALSE),
           Rule(tool.name \in config.allowlist, TRUE, FALSE),
           Rule(tool.admin_only /\ ~call.elevated, FALSE, TRUE),
           Rule((tool.dangerous \/ tool.name \in config.dangerous_tools)
                    /\ ~call.elevated, FALSE, TRUE),
           Rule(tool.group \in allowed_groups
                    \/ \E i \in DOMAIN tool.groups : tool.groups[i] \in allowed_groups,
                TRUE, FALSE),
           Rule(tool.group = "none" /\ tool.groups = <<>> /\ call.profile = "full",
                TRUE, FALSE),
           Rule(TRUE, FALSE, FALSE) >>

FirstApplicable(call) ==
    LET rules == PolicyRules(call)
    IN  rules[CHOOSE i \in DOMAIN rules :
                  rules[i].applies /\ \A j \in 1..(i - 1) : ~rules[j].applies]

\* C28: the result of evaluate is the decision of the first rule that
\* applies: denylisted, allowlisted, admin_only without elevation, dangerous
\* without elevation, a group of the tool allowed in the profile, no group in
\* the full profile, and deny otherwise.
C28_FirstApplicableRule ==
    policy_pc = "done"
    => /\ policy_result.allowed = FirstApplicable(policy_call).allowed
       /\ policy_result.requires_elevation = FirstApplicable(policy_call).elevation
       /\ (policy_call.tool.name \in policy_call.config.denylist
              => ~policy_result.allowed)
       /\ ( /\ ~policy_call.elevated
            /\ policy_call.tool.name \notin policy_call.config.allowlist
            /\ \/ policy_call.tool.admin_only
               \/ policy_call.tool.dangerous
               \/ policy_call.tool.name \in policy_call.config.dangerous_tools )
          => ~policy_result.allowed

\* A tool on both lists, in a group its profile allows, has been denied.
C28_Witness ==
    /\ policy_pc = "done"
    /\ policy_call.tool.name \in policy_call.config.denylist
    /\ policy_call.tool.name \in policy_call.config.allowlist
    /\ policy_call.tool.group \in get_allowed_groups(policy_call.config,
                                                     policy_call.profile)
    /\ ~policy_result.allowed

(***************************************************************************)
(* Claims about the skills registry                                        *)
(***************************************************************************)

\* The places of the eligible files of a skill id in an order.
EligibleFiles(order, id) ==
    {i \in DOMAIN order : order[i].id = id /\ order[i].eligible}

\* The eligible files of the id come from sources that all differ.
FromDifferentSources(order, id) ==
    \A i, j \in EligibleFiles(order, id) : i # j => order[i].source # order[j].source

Reversed(order) == [i \in DOMAIN order |-> order[Len(order) + 1 - i]]

\* The source registered for each skill id.
RegisteredSources(skills) == [id \in SkillIds |-> skills[id].source]

\* C29: when all files are loaded, a skill id whose eligible files come from
\* different sources is registered from the source of the highest precedence
\* among them, which is also what loading the files in the reverse order
\* registers; and a file that is loaded for an id already registered replaces
\* the registered skill exactly when its precedence is not lower.
C29_HighestPrecedenceWins ==
    /\ [](sk_pending = <<>>
          => \A id \in SkillIds :
                 (EligibleFiles(sk_order, id) # {} /\ FromDifferentSources(sk_order, id))
                 => /\ \E i \in EligibleFiles(sk_order, id) :
                           /\ sk_skills[id] = Skill(id, sk_order[i].source, i)
                           /\ \A j \in EligibleFiles(sk_order, id) :
                                  SOURCE_PRECEDENCE[sk_order[j].source]
                                      <= SOURCE_PRECEDENCE[sk_order[i].source]
                    /\ sk_skills[id].source
                           = RegisteredSources(
                                 load_files([x \in SkillIds |-> NoSkill],
                                            Reversed(sk_order), 1))[id])
    /\ [][(sk_pending # <<>> /\ Head(sk_pending).eligible
             /\ sk_skills[Head(sk_pending).id] # NoSkill)
          => LET f == Head(sk_pending)
                 file == Len(sk_order) - Len(sk_pending) + 1
             IN  (sk_skills'[f.id] = Skill(f.id, f.source, file))
                   <=> (SOURCE_PRECEDENCE[f.source]
                          >= SOURCE_PRECEDENCE[sk_skills[f.id].source])]_vars

\* Three eligible files of one id were loaded with the workspace file first
\* and the extra file last, and the workspace skill is registered.
C29_Witness ==
    /\ sk_pending = <<>>
    /\ Len(sk_order) = 3
    /\ \A i \in 1..3 : sk_order[i].id = "deploy" /\ sk_order[i].eligible
    /\ sk_order[1].source = "workspace"
    /\ sk_order[2].source = "bundled"
    /\ sk_order[3].source = "extra"
    /\ sk_skills["deploy"] = Skill("deploy", "workspace", 1)

(***************************************************************************)
(* Directive parser: parsing the cleaned text again                        *)
(***************************************************************************)

AllPatterns ==
    {DIRECTIVE_PATTERNS[k].pattern : k \in DOMAIN DIRECTIVE_PATTERNS}
        \cup {TOOL_PROFILE_PATTERNS[k].pattern : k \in DOMAIN TOOL_PROFILE_PATTERNS}
        \cup {PROMPT_MODE_PATTERNS[k].pattern : k \in DOMAIN PROMPT_MODE_PATTERNS}

\* C30: for every text T with P = parse_directives(T), no directive, profile
\* or mode token is found in P.clean_text, and parse_directives(P.clean_text)
\* returns an empty directive list, the default profile and mode, no
\* elevation and the clean text P.clean_text itself.
C30_ReparseFindsNothing ==
    \A k \in 2..Len(dir_results) :
        LET clean == dir_results[k - 1].clean_text
            again == dir_results[k]
        IN  /\ \A pattern \in AllPatterns : ~search(pattern, clean)
            /\ again = ParsedDirectives(<<>>, clean, "full", "full", FALSE)

\* A text with a directive and a profile token was parsed, tokens were
\* removed from it, text was left, and the text left was parsed again.
C30_Witness ==
    /\ Len(dir_results) = 2
    /\ dir_results[1].directives # <<>>
    /\ dir_results[1].tool_profile = "coding"
    /\ dir_results[1].clean_text # <<>>
    /\ dir_results[1].clean_text # dir_text

(***************************************************************************)
(* Directive parser: several profile or mode tokens in one text            *)
(***************************************************************************)

\* The positions of text where the pattern matches.
Occurrences(pattern, text) == {i \in 1..Len(text) : matches_at(pattern, text, i)}

\* The entries of patterns that occur in text, and among them the entry of
\* the token that occurs last in text.
Occurring(patterns, text) ==
    {k \in DOMAIN patterns : Occurrences(patterns[k].pattern, text) # {}}

LastInText(patterns, text) ==
    CHOOSE k \in Occurring(patterns, text) :
        \A other \in Occurring(patterns, text) :
            \A i \in Occurrences(patterns[other].pattern, text) :
                \E j \in Occurrences(patterns[k].pattern, text) : i <= j

\* C31: when the raw text holds profile tokens (mode tokens), the parse of it
\* returns the profile (the mode) of the token that occurs last in the text.
C31_LastTokenWins ==
    dir_results # <<>> =>
        /\ Occurring(TOOL_PROFILE_PATTERNS, dir_text) # {} =>
               dir_results[1].tool_profile =
                   TOOL_PROFILE_PATTERNS[LastInText(TOOL_PROFILE_PATTERNS, dir_text)].profile
        /\ Occurring(PROMPT_MODE_PATTERNS, dir_text) # {} =>
               dir_results[1].prompt_mode =
                   PROMPT_MODE_PATTERNS[LastInText(PROMPT_MODE_PATTERNS, dir_text)].prompt_mode

\* What the code does: the profile (the mode) is that of the occurring token
\* whose pattern comes last in the pattern dictionary.
LastPatternWins ==
    dir_results # <<>> =>
        /\ Occurring(TOOL_PROFILE_PATTERNS, dir_text) # {} =>
               \E k \in Occurring(TOOL_PROFILE_PATTERNS, dir_text) :
                   /\ \A other \in Occurring(TOOL_PROFILE_PATTERNS, dir_text) : other <= k
                   /\ dir_results[1].tool_profile = TOOL_PROFILE_PATTERNS[k].profile
        /\ Occurring(PROMPT_MODE_PATTERNS, dir_text) # {} =>
               \E k \in Occurring(PROMPT_MODE_PATTERNS, dir_text) :
                   /\ \A other \in Occurring(PROMPT_MODE_PATTERNS, dir_text) : other <= k
                   /\ dir_results[1].prompt_mode = PROMPT_MODE_PATTERNS[k].prompt_mode

(***************************************************************************)
(* Message content: what the later steps of the pipeline are given         *)
(***************************************************************************)

HasToken(text) == \E pattern \in AllPatterns : search(pattern, text)

\* C32: neither the content handed to the security filter nor the content
\* saved as the user turn holds a directive, profile or mode token.
C32_CleanedTextUsed ==
    /\ \A i \in DOMAIN validated : ~HasToken(validated[i])
    /\ \A i \in DOMAIN persisted : ~HasToken(persisted[i])

\* What the code does: the later steps are given the cleaned text when it is
\* not empty, and the raw text otherwise.
CleanedTextUsedUnlessEmpty ==
    msg_directives # <<>> =>
        LET clean == msg_directives[1].clean_text
        IN  /\ ~HasToken(clean)
            /\ \A i \in DOMAIN validated :
                   validated[i] = IF clean # <<>> THEN clean ELSE msg_text
            /\ \A i \in DOMAIN persisted :
                   persisted[i] = IF clean # <<>> THEN clean ELSE msg_text

(***************************************************************************)
(* Claims about the floor of the adaptive strategy                         *)
(***************************************************************************)

\* The number of messages the adaptive walk finds room for.
Fitting == Len(keep_fitting(c_messages, c_budget - summary_tokens(c_summary), <<>>, 0))

\* The number of messages the floor keeps.
FloorSize ==
    IF Len(c_messages) < min_messages_to_keep THEN Len(c_messages)
    ELSE min_messages_to_keep

\* C33: when fewer than min_messages_to_keep messages fit the budget, the
\* adaptive strategy keeps exactly the last min(min_messages_to_keep, n) of
\* the n messages, whatever the budget, reports n minus that number as
\* removed, and returns the existing summary with summary_updated false.
C33_AdaptiveFloor ==
    (c_pc = "done" /\ c_strategy = "adaptive" /\ Fitting < min_messages_to_keep) =>
        /\ Len(c_result.messages) = FloorSize
        /\ \A i \in 1..FloorSize :
               c_result.messages[i] = c_messages[Len(c_messages) - FloorSize + i]
        /\ c_result.messages_removed = Len(c_messages) - FloorSize
        /\ c_result.summary = c_summary
        /\ ~c_result.summary_updated

\* Two messages that together cost more than the budget: both are kept and
\* none is removed.
C33_Witness ==
    /\ c_pc = "done"
    /\ c_strategy = "adaptive"
    /\ Len(c_messages) = 2
    /\ \A i \in 1..2 : count_tokens(c_messages[i].content) > c_budget
    /\ c_summary # <<>>
    /\ c_result.messages = c_messages
    /\ c_result.messages_removed = 0

(***************************************************************************)
(* Claims about the progressive strategy                                   *)
(***************************************************************************)

\* The number of messages the progressive result moved out of the history,
\* and those messages.
Cutoff == Len(c_messages) - Len(c_result.messages)
Older == SubSeq(c_messages, 1, Cutoff)

\* The returned summary begins with the existing summary under its label.
CarriesSummary ==
    LET carried == <<"Previous summary:", LF>> \o c_summary
    IN  /\ Len(c_result.summary) >= Len(carried)
        /\ SubSeq(c_result.summary, 1, Len(carried)) = carried

\* The kept messages are the messages after the cutoff, in order; when
\* messages were moved, the returned summary is the aggregate of exactly the
\* messages before the cutoff, in order, after the existing summary; and
\* summary_updated tells whether messages were moved.
ProgressivePartition ==
    (c_pc = "done" /\ c_strategy = "progressive") =>
        /\ Cutoff >= 0
        /\ c_result.messages = SubSeq(c_messages, Cutoff + 1, Len(c_messages))
        /\ c_result.messages_removed = Cutoff
        /\ c_result.summary_updated = (Cutoff > 0)
        /\ Cutoff > 0 =>
               /\ c_result.summary =
                      Join((IF c_summary # <<>>
                              THEN << <<"Previous summary:", LF>> \o c_summary \o <<LF>> >>
                              ELSE <<>>)
                           \o << <<"Messages to incorporate:", LF>> >>
                           \o [i \in 1..Cutoff |->
                                  <<"[", Older[i].role, "]: ">> \o Older[i].content], LF)
               /\ c_summary # <<>> => CarriesSummary

\* C34: the progressive strategy keeps a contiguous suffix of the history in
\* order and feeds every older message, and only those, in order into the
\* returned summary; summary_updated is true exactly when a message was
\* moved; and an existing summary is carried into the result in every case.
C34_ProgressivePartitions ==
    /\ ProgressivePartition
    /\ (c_pc = "done" /\ c_strategy = "progressive" /\ c_summary # <<>>) => CarriesSummary

(***************************************************************************)
(* Claims about the end of the terminal gateway                            *)
(***************************************************************************)

\* In cli mode run_application waits and the terminal gateway's run loop has
\* returned (the user entered quit, exit or bye).
CliGatewayFinished ==
    /\ mode = "cli"
    /\ app_pc = "waiting"
    /\ \E i \in TaskIds : tpc["cli"][i] = "done"

\* C35: in cli mode, once the terminal gateway's run loop has returned while
\* run_application waits, run_application eventually completes the graceful
\* shutdown and returns.
C35_QuitLeadsToShutdown == CliGatewayFinished ~> (app_pc = "done")

(***************************************************************************)
(* Claims about commands that carry a session id                           *)
(***************************************************************************)

\* C36: a step that handles a Target.setAutoAttach or Target.setDiscoverTargets
\* command creates synthetic events only when the command carries no
\* sessionId (and, for setDiscoverTargets, discover is true); the same
\* command with a sessionId is answered without any synthetic event.
C36_NoSyntheticEventsWithSession ==
    [][\A d \in Clients, cmd \in Asking :
          CommandHandled(d, cmd)
          => /\ \A e \in Clients : SyntheticTo(e) # {} => cmd.sessionId = "none"
             /\ cmd.sessionId # "none" =>
                    \E i \in DOMAIN Created :
                        /\ Created[i].to = d
                        /\ Created[i].msg.kind = "response"]_vars

\* What the code does: only Target.setAutoAttach is held back by a sessionId.
SetAutoAttachWithSessionIsSilent ==
    [][\A d \in Clients, cmd \in Asking :
          (CommandHandled(d, cmd) /\ cmd.method = "Target.setAutoAttach"
              /\ cmd.sessionId # "none")
          => \A e \in Clients : SyntheticTo(e) = {}]_vars

(***************************************************************************)
(* Claims about the ownership of the run tasks                             *)
(***************************************************************************)

\* The run tasks of gateway g that have not ended.
LiveTasks(g) == {i \in TaskIds : tpc[g][i] \in Live}

\* C37: each registered gateway has at most one live run task, and
\* GatewayInfo.task refers to it.
C37_SingleRunTask ==
    \A g \in registered :
        /\ Cardinality(LiveTasks(g)) <= 1
        /\ \A i \in LiveTasks(g) : info[g].task = i

\* No gateway has two run tasks inside gateway._run() at once.
SingleRunLoop ==
    \A g \in registered : Cardinality({i \in TaskIds : tpc[g][i] = "run"}) <= 1

(***************************************************************************)
(* Claims about an upstream that reconnects during a cleanup               *)
(***************************************************************************)

\* A step of the disconnect cleanup of upstream c.
CleanupStep(c) ==
    /\ ext_pc[c] \in {"closing", "closing_clients"}
    /\ ext_pc'[c] # ext_pc[c]

\* C38: the registered upstream handle refers to the upstream connection
\* whose receive loop is running; every downstream client whose receive loop
\* is running on an open socket is in the client set; and a cleanup step of an
\* earlier upstream connection, taken while a later one is open, leaves the
\* handle, the targets table, the pending requests and the client set alone.
C38_LaterUpstreamKeepsState ==
    /\ [](\A c \in Conns : ext_pc[c] = "open" => extension_ws = c)
    /\ [](\A d \in Clients : (cdp_pc[d] = "open" /\ d \notin cdp_closed) => d \in cdp_clients)
    /\ [][\A c \in Conns : \A later \in Conns \ {c} :
              (CleanupStep(c) /\ ext_pc[later] = "open")
              => UNCHANGED <<extension_ws, connected_targets, pending, cdp_clients>>]_vars

(***************************************************************************)
(* Claims about background summarization                                   *)
(***************************************************************************)

\* The trigger_summarization call on channel c returns in this step after
\* the summarizer's model call failed.
FailedSummarizationReturns(c) ==
    /\ summ_calling'[c] < summ_calling[c]
    /\ summ_returned'.channel_id = c
    /\ summ_returned'.call = "failed"

\* The stored and the cached summaries of channel c are left as they were.
SummariesKept(c) ==
    /\ files'[get_summary_path(c)] = files[get_summary_path(c)]
    /\ cache'[c].user_summary = cache[c].user_summary
    /\ cache'[c].conversation_summary = cache[c].conversation_summary

\* C39: when the summarizer's model call fails during trigger_summarization,
\* the channel's stored and cached user_summary and conversation_summary keep
\* their previous values and the call does not report that summarization
\* occurred.
C39_FailedSummarizationKeepsSummaries ==
    [][\A c \in ChannelIds :
          FailedSummarizationReturns(c) =>
              SummariesKept(c) /\ summ_returned'.value = FALSE]_vars

\* The part of C39 about the summaries alone.
FailedSummarizationKeepsStored ==
    [][\A c \in ChannelIds : FailedSummarizationReturns(c) => SummariesKept(c)]_vars

\* The part of C39 about the returned value alone.
FailedSummarizationReportsFalse ==
    [][\A c \in ChannelIds :
          FailedSummarizationReturns(c) => summ_returned'.value = FALSE]_vars


\* The step is a save_summary or a trigger_summarization call on channel c.
SummarizationStep(c) ==
    /\ called'.op \in {"save_summary", "trigger_summarization"}
    /\ called'.channel_id = c

\* The channel's history file, and the turns and total_tokens of its cached
\* context when it has one, are left as they were.
HistoryKept(c) ==
    /\ files'[get_channel_path(c)] = files[get_channel_path(c)]
    /\ cache[c].present =>
           /\ cache'[c].present
           /\ cache'[c].history = cache[c].history
           /\ cache'[c].total_tokens = cache[c].total_tokens

\* The channel's cached context needs summarization.
NeedsSummarization(c) ==
    cache[c].present /\ context_needs_summarization(cache[c])

Init ==
    /\ InitOrch(MaxMsgs, <<>>)
    /\ orch_running = TRUE
    /\ ptask = "running"
    /\ InitGateways(Names, FALSE, 0)
    /\ NoApp
    /\ NoLib

Next == NextOrch

Spec == Init /\ [][Next]_vars

\* The supervisor with both gateways registered, started together up to
\* MaxStartAlls times, with automatic restarts enabled or not.
InitFleet ==
    /\ InitOrch(0, <<>>)
    /\ orch_running = FALSE
    /\ ptask = "none"
    /\ \E auto \in BOOLEAN : InitGateways(Names, auto, MaxStartAlls)
    /\ NoApp
    /\ NoLib
    /\ NoSkills
    /\ NoDirectives
    /\ NoContent
    /\ NoSummarization

SpecFleet == InitFleet /\ [][NextFleet]_vars

\* The supervisor with one gateway registered, driven through every entry
\* point by callers that make up to MaxOps calls, with automatic restarts
\* enabled or not.
InitGateway ==
    /\ InitOrch(0, <<>>)
    /\ orch_running = FALSE
    /\ ptask = "none"
    /\ \E auto \in BOOLEAN : InitGateways({"cli"}, auto, MaxOps)
    /\ NoApp
    /\ NoLib
    /\ NoSkills
    /\ NoDirectives
    /\ NoContent
    /\ NoSummarization

SpecGateway == InitGateway /\ [][NextGateway]_vars

\* run_application from startup to its return.
SpecApp == InitApp /\ [][NextApp]_vars

\* The event loop runs whatever is ready, and every awaited call ends.
FairSpecApp == SpecApp /\ WF_vars(AppProgress)

\* Every turn list up to MaxTurns turns with contents up to MaxContent
\* characters, formatted, parsed and formatted again.
InitRoundTrip ==
    /\ InitOrch(0, <<>>)
    /\ orch_running = FALSE
    /\ ptask = "none"
    /\ InitGateways({}, FALSE, 0)
    /\ NoApp
    /\ NoStore
    /\ NoCompaction
    /\ NoRelay
    /\ InitHistory
    /\ NoIndex
    /\ NoPolicy
    /\ NoSkills
    /\ NoDirectives
    /\ NoContent
    /\ NoSummarization

SpecRoundTrip == InitRoundTrip /\ [][NextHistory]_vars

\* A context store over an empty memory directory, with callers that make up
\* to MaxStoreOps calls.
InitContextStore ==
    /\ InitOrch(0, <<>>)
    /\ orch_running = FALSE
    /\ ptask = "none"
    /\ InitGateways({}, FALSE, 0)
    /\ NoApp
    /\ NoHistory
    /\ NoCompaction
    /\ NoRelay
    /\ InitStore
    /\ NoIndex
    /\ NoPolicy
    /\ NoSkills
    /\ NoDirectives
    /\ NoContent
    /\ NoSummarization

SpecStore == InitContextStore /\ [][NextStore]_vars

\* A context store over an empty memory directory, with an orchestrator
\* that saves up to MaxSummOps messages and calls and runs the summarization
\* tasks it creates.
InitBackgroundSummarization ==
    /\ InitOrch(0, <<>>)
    /\ orch_running = FALSE
    /\ ptask = "none"
    /\ InitGateways({}, FALSE, 0)
    /\ NoApp
    /\ NoHistory
    /\ NoCompaction
    /\ NoRelay
    /\ files = [p \in Paths |-> NoFile]
    /\ files_before = [p \in Paths |-> NoFile]
    /\ cache = [c \in ChannelIds |-> NoContext]
    /\ called = [op |-> "none", channel_id |-> <<>>]
    /\ store_ops = MaxSummOps
    /\ NoIndex
    /\ NoPolicy
    /\ NoSkills
    /\ NoDirectives
    /\ NoContent
    /\ InitSummarization

SpecSummarization == InitBackgroundSummarization /\ [][NextSummarization]_vars

\* compact called once on every input within the bounds.
InitCompactor ==
    /\ InitOrch(0, <<>>)
    /\ orch_running = FALSE
    /\ ptask = "none"
    /\ InitGateways({}, FALSE, 0)
    /\ NoApp
    /\ NoHistory
    /\ NoStore
    /\ NoRelay
    /\ InitCompaction
    /\ NoIndex
    /\ NoPolicy
    /\ NoSkills
    /\ NoDirectives
    /\ NoContent
    /\ NoSummarization

SpecCompaction == InitCompactor /\ [][NextCompaction]_vars

\* The relay with up to MaxConns requests on /extension and up to MaxEvents
\* events from the upstream.
InitRelayServer ==
    /\ InitOrch(0, <<>>)
    /\ orch_running = FALSE
    /\ ptask = "none"
    /\ InitGateways({}, FALSE, 0)
    /\ NoApp
    /\ NoHistory
    /\ NoStore
    /\ NoCompaction
    /\ InitRelay
    /\ NoIndex
    /\ NoPolicy
    /\ NoSkills
    /\ NoDirectives
    /\ NoContent
    /\ NoSummarization

SpecRelay == InitRelayServer /\ [][NextRelay]_vars

\* The runtime without traffic, for the specifications of one library
\* component.
NoRuntime ==
    /\ InitOrch(0, <<>>)
    /\ orch_running = FALSE
    /\ ptask = "none"
    /\ InitGateways({}, FALSE, 0)
    /\ NoApp

InitDiscovery ==
    /\ NoRuntime
    /\ NoHistory
    /\ NoStore
    /\ NoCompaction
    /\ InitRelayWith(CdpConns, MaxClients, 0, CdpEvents, MaxCommands)
    /\ NoIndex
    /\ NoPolicy
    /\ NoSkills
    /\ NoDirectives
    /\ NoContent
    /\ NoSummarization

SpecDiscovery == InitDiscovery /\ [][NextDiscovery]_vars

InitForward ==
    /\ NoRuntime
    /\ NoHistory
    /\ NoStore
    /\ NoCompaction
    /\ InitRelayWith(CdpConns, MaxClients, MaxHttp, 0, MaxCommands)
    /\ NoIndex
    /\ NoPolicy
    /\ NoSkills
    /\ NoDirectives
    /\ NoContent
    /\ NoSummarization

SpecForward == InitForward /\ [][NextForward]_vars

InitEvents ==
    /\ NoRuntime
    /\ NoHistory
    /\ NoStore
    /\ NoCompaction
    /\ InitRelayWith(CdpConns, MaxClients, 0, MaxEvents, EventCommands)
    /\ NoIndex
    /\ NoPolicy
    /\ NoSkills
    /\ NoDirectives
    /\ NoContent
    /\ NoSummarization

SpecEvents == InitEvents /\ [][NextEvents]_vars

InitAccess ==
    /\ NoRuntime
    /\ NoHistory
    /\ NoStore
    /\ NoCompaction
    /\ InitRelayWith(MaxConns, MaxClients, MaxHttp, 0, 0)
    /\ NoIndex
    /\ NoPolicy
    /\ NoSkills
    /\ NoDirectives
    /\ NoContent
    /\ NoSummarization

SpecAccess == InitAccess /\ [][NextAccess]_vars

InitMemoryIndex ==
    /\ NoRuntime
    /\ NoHistory
    /\ NoStore
    /\ NoCompaction
    /\ NoRelay
    /\ InitIndex
    /\ NoPolicy
    /\ NoSkills
    /\ NoDirectives
    /\ NoContent
    /\ NoSummarization

SpecIndex == InitMemoryIndex /\ [][NextIndex]_vars

InitFileIndex ==
    /\ NoRuntime
    /\ NoHistory
    /\ NoStore
    /\ NoCompaction
    /\ NoRelay
    /\ InitReindex
    /\ NoPolicy
    /\ NoSkills
    /\ NoDirectives
    /\ NoContent
    /\ NoSummarization

SpecReindex == InitFileIndex /\ [][NextReindex]_vars

InitToolPolicy ==
    /\ NoRuntime
    /\ NoHistory
    /\ NoStore
    /\ NoCompaction
    /\ NoRelay
    /\ NoIndex
    /\ InitPolicy
    /\ NoSkills
    /\ NoDirectives
    /\ NoContent
    /\ NoSummarization

SpecPolicy == InitToolPolicy /\ [][NextPolicy]_vars

InitSkillsRegistry ==
    /\ NoRuntime
    /\ NoHistory
    /\ NoStore
    /\ NoCompaction
    /\ NoRelay
    /\ NoIndex
    /\ NoPolicy
    /\ InitSkills
    /\ NoDirectives
    /\ NoContent
    /\ NoSummarization

SpecSkills == InitSkillsRegistry /\ [][NextSkills]_vars

InitDirectiveParser ==
    /\ NoRuntime
    /\ NoHistory
    /\ NoStore
    /\ NoCompaction
    /\ NoRelay
    /\ NoIndex
    /\ NoPolicy
    /\ NoSkills
    /\ InitDirectives
    /\ NoContent
    /\ NoSummarization

SpecDirectives == InitDirectiveParser /\ [][NextDirectives]_vars

InitMessageContent ==
    /\ NoRuntime
    /\ NoHistory
    /\ NoStore
    /\ NoCompaction
    /\ NoRelay
    /\ NoIndex
    /\ NoPolicy
    /\ NoSkills
    /\ NoDirectives
    /\ InitContent
    /\ NoSummarization

SpecContent == InitMessageContent /\ [][NextContent]_vars

====
